---- MODULE Spec2Model ----
(***************************************************************************)
(* Verification model of tensor-calc (src/src/symbolic.rs, tensor.rs).     *)
(*                                                                         *)
(* Texts are sequences of one-character strings.  An f64 is a triple       *)
(* <<kind, n, d>>: kind "fin" is the rational n/d in lowest terms (d > 0), *)
(* "inf", "ninf" and "nan" are the IEEE specials, and "other" stands for   *)
(* an f64 this model does not represent exactly (a rounded result, a power *)
(* beyond MaxInt, or a result that depends on the sign of zero; +0.0 and   *)
(* -0.0 are one value).                                                    *)
(* Inputs whose evaluation meets "other" are left out of the input sets.   *)
(***************************************************************************)
EXTENDS Integers, Sequences, FiniteSets, TLC

VARIABLES pc,      \* position of the caller: which operation ran last
          text,    \* input text handed to parse
          expr,    \* input expression handed to simplify / derivative
          wrt,     \* differentiation variable name
          rows,    \* metric as rows of texts (parse_metric_tensor input)
          coords,  \* coordinate names
          metric,  \* parsed metric (MetricTensor)
          out,     \* result of the last operation
          prev     \* result of the operation before it

vars == <<pc, text, expr, wrt, rows, coords, metric, out, prev>>

----------------------------------------------------------------------------
(* Characters *)

LowerSeq == <<"a","b","c","d","e","f","g","h","i","j","k","l","m",
              "n","o","p","q","r","s","t","u","v","w","x","y","z">>
UpperSeq == <<"A","B","C","D","E","F","G","H","I","J","K","L","M",
              "N","O","P","Q","R","S","T","U","V","W","X","Y","Z">>
DigitSeq == <<"0","1","2","3","4","5","6","7","8","9">>

Range(s) == {s[i] : i \in 1..Len(s)}

AsciiLetter == Range(LowerSeq) \cup Range(UpperSeq)
AsciiDigit  == Range(DigitSeq)
\* A decimal digit outside ASCII (ARABIC-INDIC DIGIT THREE): general category Nd.
UniDigit    == {"U+0663"}
WhiteSpace  == {" ", "\t", "\n"}

\* char::is_alphanumeric: Unicode Alphabetic or Numeric.
IsAlphanumeric(c) == c \in AsciiLetter \cup AsciiDigit \cup UniDigit
\* regex class \d with the crate's default Unicode mode: \p{Nd}.
IsRegexDigit(c) == c \in AsciiDigit \cup UniDigit
\* regex classes [a-zA-Z_] and [a-zA-Z0-9_].
IsIdentStart(c) == c \in AsciiLetter \cup {"_"}
IsIdentCont(c)  == c \in AsciiLetter \cup AsciiDigit \cup {"_"}

ToLower(c) == IF c \in Range(UpperSeq)
              THEN LowerSeq[CHOOSE i \in 1..26 : UpperSeq[i] = c]
              ELSE c
DigitVal(c) == (CHOOSE i \in 1..10 : DigitSeq[i] = c) - 1

----------------------------------------------------------------------------
(* Values and text helpers *)

\* A Rust `let`: v is computed once and F is applied to its value.
Bind(v, F(_)) == CHOOSE y \in {F(x) : x \in {v}} : TRUE
Bind2(a, b, F(_, _)) == CHOOSE y \in {F(x1, x2) : x1 \in {a}, x2 \in {b}} : TRUE

All(s, P(_)) == Bind(s, LAMBDA t : \A i \in 1..Len(t) : P(t[i]))
Lowered(s) == Bind(s, LAMBDA t : [i \in 1..Len(t) |-> ToLower(t[i])])

\* str::trim: drop leading and trailing white space.
Trim(s) ==
    Bind(s, LAMBDA t :
        LET n  == Len(t)
            lo == CHOOSE i \in 1..n :
                     t[i] \notin WhiteSpace /\ \A j \in 1..(i - 1) : t[j] \in WhiteSpace
            k  == CHOOSE i \in 1..n :
                     t[n + 1 - i] \notin WhiteSpace
                     /\ \A j \in 1..(i - 1) : t[n + 1 - j] \in WhiteSpace
        IN  IF \A i \in 1..n : t[i] \in WhiteSpace THEN <<>>
            ELSE SubSeq(t, lo, n + 1 - k))

\* Position of the first occurrence of c in s at or after from, or 0.
IndexFrom(s, c, from) ==
    Bind(s, LAMBDA t :
        IF \A i \in from..Len(t) : t[i] # c THEN 0
        ELSE CHOOSE i \in from..Len(t) :
                t[i] = c /\ \A j \in from..(i - 1) : t[j] # c)

\* str::split(','): the pieces between separators, always at least one.
RECURSIVE Split(_, _)
Split(s, c) ==
    Bind2(s, IndexFrom(s, c, 1), LAMBDA t, k :
        IF k = 0 THEN <<t>>
        ELSE <<SubSeq(t, 1, k - 1)>> \o Split(SubSeq(t, k + 1, Len(t)), c))

RECURSIVE Join(_, _)
Join(ss, sep) ==
    Bind(ss, LAMBDA t :
        IF Len(t) = 0 THEN <<>>
        ELSE IF Len(t) = 1 THEN t[1]
        ELSE t[1] \o sep \o Join(Tail(t), sep))

----------------------------------------------------------------------------
(* f64 values and arithmetic *)

Fin(n, d) == <<"fin", n, d>>
FInf      == <<"inf", 0, 1>>
FNegInf   == <<"ninf", 0, 1>>
FNaN      == <<"nan", 0, 1>>
FOther    == <<"other", 0, 1>>

Abs(n) == IF n < 0 THEN -n ELSE n

RECURSIVE Gcd(_, _)
Gcd(a, b) == IF b = 0 THEN a ELSE Gcd(b, a % b)

\* The rational n/d (d # 0) in lowest terms with a positive denominator.
Rat(n, d) ==
    LET g == Gcd(Abs(n), Abs(d))
        s == IF d < 0 THEN -1 ELSE 1
    IN  Fin((s * n) \div g, (s * d) \div g)

RECURSIVE IsPow2(_)
IsPow2(d) == IF d = 1 THEN TRUE ELSE IF d % 2 # 0 THEN FALSE ELSE IsPow2(d \div 2)

RECURSIVE IPow(_, _)
IPow(b, k) == IF k = 0 THEN 1 ELSE b * IPow(b, k - 1)

IsFin(a)  == a[1] = "fin"
\* A finite value f64 holds exactly, so that + - * on such values are exact.
IsExact(a) == IsFin(a) /\ IsPow2(a[3])
IsInt(a)  == IsFin(a) /\ a[3] = 1
IsOdd(a)  == IsInt(a) /\ a[2] % 2 # 0
FIsZero(a) == IsFin(a) /\ a[2] = 0
\* -1, 0 or 1 for a finite or infinite value.
Sign(a) == CASE a[1] = "inf"  -> 1
             [] a[1] = "ninf" -> -1
             [] OTHER -> IF a[2] > 0 THEN 1 ELSE IF a[2] < 0 THEN -1 ELSE 0
SignedInf(s) == IF s < 0 THEN FNegInf ELSE FInf
\* An exact result when f64 can hold it, "other" when it would be rounded.
Exactly(r) == IF IsPow2(r[3]) THEN r ELSE FOther

\* f64 == (NaN differs from everything, itself included).
FEq(a, b) == a[1] # "nan" /\ b[1] # "nan" /\ a = b

FNeg(a) == CASE a[1] = "fin"  -> Fin(-a[2], a[3])
             [] a[1] = "inf"  -> FNegInf
             [] a[1] = "ninf" -> FInf
             [] OTHER -> a

FAdd(a, b) ==
    CASE a[1] = "nan" \/ b[1] = "nan" -> FNaN
      [] a[1] = "other" \/ b[1] = "other" -> FOther
      [] IsFin(a) /\ IsFin(b) ->
            IF IsExact(a) /\ IsExact(b)
            THEN Rat(a[2] * b[3] + b[2] * a[3], a[3] * b[3])
            ELSE FOther
      [] IsFin(a) -> b
      [] IsFin(b) -> a
      [] OTHER -> IF a = b THEN a ELSE FNaN

FSub(a, b) == FAdd(a, FNeg(b))

FMul(a, b) ==
    CASE a[1] = "nan" \/ b[1] = "nan" -> FNaN
      [] a[1] = "other" \/ b[1] = "other" -> FOther
      [] IsFin(a) /\ IsFin(b) ->
            IF IsExact(a) /\ IsExact(b)
            THEN Rat(a[2] * b[2], a[3] * b[3])
            ELSE FOther
      [] OTHER -> IF Sign(a) * Sign(b) = 0 THEN FNaN
                  ELSE SignedInf(Sign(a) * Sign(b))

\* a / b for b # 0.0 (the only divisions simplify performs).
FDiv(a, b) ==
    CASE a[1] = "nan" \/ b[1] = "nan" -> FNaN
      [] a[1] = "other" \/ b[1] = "other" -> FOther
      [] IsFin(a) /\ IsFin(b) ->
            IF IsExact(a) /\ IsExact(b)
            THEN Exactly(Rat(a[2] * b[3], a[3] * b[2]))
            ELSE FOther
      [] IsFin(a) -> Fin(0, 1)
      [] IsFin(b) -> SignedInf(Sign(a) * Sign(b))
      [] OTHER -> FNaN

\* Largest magnitude the integers of this model hold.
MaxInt == 2147483647

\* b^k stays within MaxInt (b >= 0, k >= 0).
RECURSIVE FitsPow(_, _)
FitsPow(b, k) ==
    \/ k = 0
    \/ b <= 1
    \/ k <= 31 /\ FitsPow(b, k - 1) /\ IPow(b, k - 1) <= MaxInt \div b

\* f64::powf (IEEE 754 pow).
FPow(a, b) ==
    CASE FIsZero(b) -> Fin(1, 1)
      [] a = Fin(1, 1) -> Fin(1, 1)
      [] a[1] = "nan" \/ b[1] = "nan" -> FNaN
      [] a[1] = "other" \/ b[1] = "other" -> FOther
      [] FIsZero(a) ->
            IF Sign(b) > 0 THEN Fin(0, 1)
            ELSE IF IsOdd(b) THEN FOther   \* +inf or -inf by the sign of zero
            ELSE FInf
      [] ~IsFin(b) ->
            IF a = Fin(-1, 1) THEN Fin(1, 1)
            ELSE IF IsFin(a) /\ Abs(a[2]) < a[3]
                 THEN (IF b = FInf THEN Fin(0, 1) ELSE FInf)
                 ELSE (IF b = FInf THEN FInf ELSE Fin(0, 1))
      [] a = FInf -> IF Sign(b) > 0 THEN FInf ELSE Fin(0, 1)
      [] a = FNegInf ->
            IF Sign(b) < 0 THEN Fin(0, 1)
            ELSE IF IsOdd(b) THEN FNegInf ELSE FInf
      [] ~IsInt(b) -> IF Sign(a) < 0 THEN FNaN ELSE FOther
      [] ~IsExact(a) -> FOther
      [] ~FitsPow(Abs(a[2]), Abs(b[2])) \/ ~FitsPow(a[3], Abs(b[2])) -> FOther
      [] OTHER ->
            IF b[2] > 0 THEN Rat(IPow(a[2], b[2]), IPow(a[3], b[2]))
            ELSE Exactly(Rat(IPow(a[3], -b[2]), IPow(a[2], -b[2])))

----------------------------------------------------------------------------
(* f64 to text and back *)

RECURSIVE DigitsOf(_)
DigitsOf(n) == IF n < 10 THEN <<DigitSeq[n + 1]>>
               ELSE DigitsOf(n \div 10) \o <<DigitSeq[(n % 10) + 1]>>

RECURSIVE FracDigits(_, _)
FracDigits(r, d) == IF r = 0 THEN <<>>
                    ELSE <<DigitSeq[((r * 10) \div d) + 1]>> \o FracDigits((r * 10) % d, d)

\* Display of an f64 with "{}": the shortest decimal text that reads back as
\* the same value, never in exponent form.
FmtFloat(v) ==
    CASE v[1] = "inf"  -> <<"i","n","f">>
      [] v[1] = "ninf" -> <<"-","i","n","f">>
      [] v[1] = "nan"  -> <<"N","a","N">>
      [] OTHER ->
            (IF v[2] < 0 THEN <<"-">> ELSE <<>>)
            \o DigitsOf(Abs(v[2]) \div v[3])
            \o (IF v[3] = 1 THEN <<>>
                ELSE <<".">> \o FracDigits(Abs(v[2]) % v[3], v[3]))

\* The Constant arm of Display: an integral value is written as an i64.
FmtConstant(v) ==
    IF IsInt(v) THEN (IF v[2] < 0 THEN <<"-">> ELSE <<>>) \o DigitsOf(Abs(v[2]))
    ELSE FmtFloat(v)

RECURSIVE DigitsVal(_)
DigitsVal(s) ==
    Bind(s, LAMBDA t :
        IF Len(t) = 0 THEN 0
        ELSE DigitsVal(SubSeq(t, 1, Len(t) - 1)) * 10 + DigitVal(t[Len(t)]))

IsDigits(s) == All(s, LAMBDA c : c \in AsciiDigit)

ParseOk(v) == [ok |-> TRUE, v |-> v]
ParseErr   == [ok |-> FALSE, v |-> FOther]

\* Digit* ('.' Digit*)? with at least one digit, as a rational.
ParseMantissa(s) ==
    Bind2(s, IndexFrom(s, ".", 1), LAMBDA t, dot :
        LET ip == IF dot = 0 THEN t ELSE SubSeq(t, 1, dot - 1)
            fp == IF dot = 0 THEN <<>> ELSE SubSeq(t, dot + 1, Len(t))
        IN  IF IsDigits(ip) /\ IsDigits(fp) /\ Len(ip) + Len(fp) > 0
            THEN ParseOk(Rat(DigitsVal(ip \o fp), IPow(10, Len(fp))))
            ELSE ParseErr)

\* Sign? Digit+ of an exponent, as an integer.
ParseExponent(s) ==
    Bind(s, LAMBDA t :
        LET neg  == Len(t) > 0 /\ t[1] = "-"
            body == IF Len(t) > 0 /\ t[1] \in {"+", "-"} THEN Tail(t) ELSE t
        IN  IF Len(body) > 0 /\ IsDigits(body)
            THEN ParseOk(Fin(IF neg THEN -DigitsVal(body) ELSE DigitsVal(body), 1))
            ELSE ParseErr)

\* <f64 as FromStr>::from_str:
\*   Float  ::= Sign? ( 'inf' | 'infinity' | 'nan' | Number )   (any letter case)
\*   Number ::= ( Digit+ | Digit+ '.' Digit* | Digit* '.' Digit+ ) Exp?
\*   Exp    ::= 'e' Sign? Digit+
ParseNumber(body, low, neg) ==
    Bind(IndexFrom(low, "e", 1), LAMBDA e :
        Bind2(ParseMantissa(IF e = 0 THEN body ELSE SubSeq(body, 1, e - 1)),
              IF e = 0 THEN ParseOk(Fin(0, 1))
              ELSE ParseExponent(SubSeq(body, e + 1, Len(body))),
              LAMBDA m, x :
                LET mag == IF x.v[2] >= 0
                           THEN Rat(m.v[2] * IPow(10, x.v[2]), m.v[3])
                           ELSE Rat(m.v[2], m.v[3] * IPow(10, -x.v[2]))
                IN  IF m.ok /\ x.ok THEN ParseOk(IF neg THEN FNeg(mag) ELSE mag)
                    ELSE ParseErr))

ParseF64(s) ==
    Bind(s, LAMBDA t :
        LET neg == Len(t) > 0 /\ t[1] = "-"
        IN  Bind(IF Len(t) > 0 /\ t[1] \in {"+", "-"} THEN Tail(t) ELSE t, LAMBDA body :
                Bind(Lowered(body), LAMBDA low :
                    CASE low = <<"i","n","f">> \/ low = <<"i","n","f","i","n","i","t","y">> ->
                            ParseOk(IF neg THEN FNegInf ELSE FInf)
                      [] low = <<"n","a","n">> -> ParseOk(FNaN)
                      [] OTHER -> ParseNumber(body, low, neg))))

----------------------------------------------------------------------------
(* SymbolicExpr *)

Zero           == <<"Zero">>
One            == <<"One">>
Variable(name) == <<"Variable", name>>
Constant(v)    == <<"Constant", v>>
Add(l, r)      == <<"Add", l, r>>
Subtract(l, r) == <<"Subtract", l, r>>
Multiply(l, r) == <<"Multiply", l, r>>
Divide(l, r)   == <<"Divide", l, r>>
Power(b, e)    == <<"Power", b, e>>
Function(name, args) == <<"Function", name, args>>

Kind(e) == e[1]
IsConstant(e) == Kind(e) = "Constant"
BinaryKinds == {"Add", "Subtract", "Multiply", "Divide", "Power"}

\* #[derive(PartialEq)]: same variant and equal fields; f64 fields by f64 ==.
RECURSIVE ExprEq(_, _)
ExprEq(a, b) ==
    CASE Kind(a) # Kind(b) -> FALSE
      [] Kind(a) = "Constant" -> FEq(a[2], b[2])
      [] Kind(a) = "Variable" -> a[2] = b[2]
      [] Kind(a) \in BinaryKinds -> ExprEq(a[2], b[2]) /\ ExprEq(a[3], b[3])
      [] Kind(a) = "Function" ->
            /\ a[2] = b[2]
            /\ Len(a[3]) = Len(b[3])
            /\ \A i \in 1..Len(a[3]) : ExprEq(a[3][i], b[3][i])
      [] OTHER -> TRUE

Infix(l, op, r) == <<"(">> \o l \o <<" ", op, " ">> \o r \o <<")">>

\* impl fmt::Display for SymbolicExpr (to_string).
RECURSIVE Display(_)
Display(e) ==
    CASE Kind(e) = "Variable" -> e[2]
      [] Kind(e) = "Constant" -> FmtConstant(e[2])
      [] Kind(e) = "Add"      -> Infix(Display(e[2]), "+", Display(e[3]))
      [] Kind(e) = "Subtract" -> Infix(Display(e[2]), "-", Display(e[3]))
      [] Kind(e) = "Multiply" -> Infix(Display(e[2]), "*", Display(e[3]))
      [] Kind(e) = "Divide"   -> Infix(Display(e[2]), "/", Display(e[3]))
      [] Kind(e) = "Power"    -> Display(e[2]) \o <<"^">> \o Display(e[3])
      [] Kind(e) = "Function" ->
            e[2] \o <<"(">>
                 \o Join([i \in 1..Len(e[3]) |-> Display(e[3][i])], <<",", " ">>)
                 \o <<")">>
      [] Kind(e) = "Zero" -> <<"0">>
      [] OTHER -> <<"1">>

\* How a call ends: Ok(value), Err(error kind), or a panic (abnormal termination).
Ok(v)     == [kind |-> "Ok", val |-> v]
Err(k)    == [kind |-> "Err", val |-> k]
Panic     == [kind |-> "Panic", val |-> "panic"]
IsOk(r)   == r.kind = "Ok"

IsIdent(s) ==
    Bind(s, LAMBDA t : /\ Len(t) > 0
                       /\ IsIdentStart(t[1])
                       /\ \A i \in 2..Len(t) : IsIdentCont(t[i]))

\* Mutation: the exponent may be a signed decimal literal.
MatchesPowerDecimalExponent(s) ==
    Bind2(s, IndexFrom(s, "^", 1), LAMBDA t, k :
        /\ k > 1 /\ k < Len(t)
        /\ IsIdent(SubSeq(t, 1, k - 1))
        /\ \A i \in (k + 1)..Len(t) : IsRegexDigit(t[i]) \/ t[i] \in {".", "-"})

\* The regex ^([a-zA-Z_][a-zA-Z0-9_]*)\^(\d+)$
MatchesPower(s) ==
    Bind2(s, IndexFrom(s, "^", 1), LAMBDA t, k :
        /\ k > 1 /\ k < Len(t)
        /\ IsIdent(SubSeq(t, 1, k - 1))
        /\ \A i \in (k + 1)..Len(t) : IsRegexDigit(t[i]))

\* Mutation: the argument group is (.*), so it may hold a closing parenthesis.
MatchesFunctionNested(s) ==
    Bind2(s, IndexFrom(s, "(", 1), LAMBDA t, k :
        /\ k > 1
        /\ IsIdent(SubSeq(t, 1, k - 1))
        /\ t[Len(t)] = ")")

\* The regex ^([a-zA-Z_][a-zA-Z0-9_]*)\(([^)]*)\)$
MatchesFunction(s) ==
    Bind2(s, IndexFrom(s, "(", 1), LAMBDA t, k :
        /\ k > 1
        /\ IsIdent(SubSeq(t, 1, k - 1))
        /\ t[Len(t)] = ")"
        /\ \A i \in (k + 1)..(Len(t) - 1) : t[i] # ")")

RECURSIVE parse(_)

\* Mutation: the power rule is missing; the text falls through to the fallback.
ParsePowerAsFallback(input) == Ok(Variable(input))

\* The power branch of parse: captures 1 and 2 of the power regex.
ParsePower(input) ==
    Bind(IndexFrom(input, "^", 1), LAMBDA hat :
        \* captures.get(2)...parse::<f64>().unwrap()
        Bind(ParseF64(SubSeq(input, hat + 1, Len(input))), LAMBDA expo :
            IF expo.ok
            THEN Ok(Power(Variable(SubSeq(input, 1, hat - 1)), Constant(expo.v)))
            ELSE Panic))

\* The function branch of parse: the name and the comma-separated arguments.
ParseFunction(input) ==
    Bind(IndexFrom(input, "(", 1), LAMBDA par :
        LET argsStr == SubSeq(input, par + 1, Len(input) - 1)
        IN  Bind(IF Len(argsStr) = 0 THEN <<>> ELSE Split(argsStr, ","), LAMBDA parts :
                \* args.push(Self::parse(arg.trim())?)
                Bind([i \in 1..Len(parts) |-> parse(Trim(parts[i]))], LAMBDA args :
                    IF \A i \in 1..Len(parts) : IsOk(args[i])
                    THEN Ok(Function(SubSeq(input, 1, par - 1),
                                     [i \in 1..Len(parts) |-> args[i].val]))
                    ELSE Panic)))

\* The branches of parse on the trimmed input, in the code's order.
ParseInput(input) ==
    CASE input = <<>> -> Ok(Zero)
      [] input = <<"0">> -> Ok(Zero)
      [] input = <<"1">> -> Ok(One)
      [] OTHER ->
            Bind(ParseF64(input), LAMBDA f :
                CASE f.ok -> Ok(Constant(f.v))
                  [] All(input, LAMBDA c : IsAlphanumeric(c) \/ c = "_") ->
                        Ok(Variable(input))
                  [] MatchesPower(input) -> ParsePower(input)
                  [] MatchesFunction(input) -> ParseFunction(input)
                  [] OTHER -> Ok(Variable(input)))

\* SymbolicExpr::parse.
parse(raw) == Bind(Trim(raw), ParseInput)

\* Mutation: a difference of two equal operands also counts as zero.
IsZeroCancelling(e) ==
    \/ Kind(e) = "Zero"
    \/ (Kind(e) = "Constant" /\ FEq(e[2], Fin(0, 1)))
    \/ (Kind(e) = "Subtract" /\ e[2] = e[3])

\* SymbolicExpr::is_zero.
is_zero(e) == Kind(e) = "Zero" \/ (Kind(e) = "Constant" /\ FEq(e[2], Fin(0, 1)))

\* The match arms of simplify, applied to already simplified operands.
SimplifyAdd(left, right) ==
    CASE left = Zero  -> right
      [] right = Zero -> left
      [] IsConstant(left) /\ IsConstant(right) -> Constant(FAdd(left[2], right[2]))
      [] OTHER -> Add(left, right)

\* Mutation: the x - 0 = x arm is missing.
SimplifySubtractKeepsZero(left, right) ==
    CASE left = Zero  -> Subtract(Zero, right)
      [] IsConstant(left) /\ IsConstant(right) -> Constant(FSub(left[2], right[2]))
      [] OTHER -> Subtract(left, right)

SimplifySubtract(left, right) ==
    CASE right = Zero -> left
      [] left = Zero  -> Subtract(Zero, right)
      [] IsConstant(left) /\ IsConstant(right) -> Constant(FSub(left[2], right[2]))
      [] OTHER -> Subtract(left, right)

\* Mutation: the x * 0 = 0 arm is missing.
SimplifyMultiplyKeepsZero(left, right) ==
    CASE left = One  -> right
      [] right = One -> left
      [] IsConstant(left) /\ IsConstant(right) -> Constant(FMul(left[2], right[2]))
      [] OTHER -> Multiply(left, right)

SimplifyMultiply(left, right) ==
    CASE left = Zero \/ right = Zero -> Zero
      [] left = One  -> right
      [] right = One -> left
      [] IsConstant(left) /\ IsConstant(right) -> Constant(FMul(left[2], right[2]))
      [] OTHER -> Multiply(left, right)

SimplifyDivide(left, right) ==
    CASE left = Zero -> Zero
      [] right = One -> left
      [] IsConstant(left) /\ IsConstant(right) /\ ~FEq(right[2], Fin(0, 1)) ->
            Constant(FDiv(left[2], right[2]))
      [] OTHER -> Divide(left, right)

\* Mutation: the base arms are tried before the exponent arms (0^0 gives 0).
SimplifyPowerBaseFirst(base, exp) ==
    CASE base = Zero -> Zero
      [] base = One  -> One
      [] exp = Zero  -> One
      [] exp = One   -> base
      [] IsConstant(base) /\ IsConstant(exp) -> Constant(FPow(base[2], exp[2]))
      [] OTHER -> Power(base, exp)

SimplifyPower(base, exp) ==
    CASE exp = Zero  -> One
      [] exp = One   -> base
      [] base = Zero -> Zero
      [] base = One  -> One
      [] IsConstant(base) /\ IsConstant(exp) -> Constant(FPow(base[2], exp[2]))
      [] OTHER -> Power(base, exp)

RECURSIVE simplify(_)

\* Mutation: the right operand is used as given, without right.simplify().
SimplifyLeftOnly(e) ==
    CASE Kind(e) = "Add"      -> Bind2(simplify(e[2]), e[3], SimplifyAdd)
      [] Kind(e) = "Subtract" -> Bind2(simplify(e[2]), e[3], SimplifySubtract)
      [] Kind(e) = "Multiply" -> Bind2(simplify(e[2]), e[3], SimplifyMultiply)
      [] Kind(e) = "Divide"   -> Bind2(simplify(e[2]), e[3], SimplifyDivide)
      [] Kind(e) = "Power"    -> Bind2(simplify(e[2]), e[3], SimplifyPower)
      [] OTHER -> e

\* SymbolicExpr::simplify: one bottom-up pass.
simplify(e) ==
    CASE Kind(e) = "Add"      -> Bind2(simplify(e[2]), simplify(e[3]), SimplifyAdd)
      [] Kind(e) = "Subtract" -> Bind2(simplify(e[2]), simplify(e[3]), SimplifySubtract)
      [] Kind(e) = "Multiply" -> Bind2(simplify(e[2]), simplify(e[3]), SimplifyMultiply)
      [] Kind(e) = "Divide"   -> Bind2(simplify(e[2]), simplify(e[3]), SimplifyDivide)
      [] Kind(e) = "Power"    -> Bind2(simplify(e[2]), simplify(e[3]), SimplifyPower)
      [] OTHER -> e

Sin == <<"s","i","n">>
Cos == <<"c","o","s">>

\* Mutation: every variable counts as the differentiation variable.
DerivativeOfAnyVariable(name, var) == One

\* The Variable arm of derivative.
DerivativeOfVariable(name, var) == IF name = var THEN One ELSE Zero

\* Mutation: the One sentinel as exponent is differentiated as x^1.
DerivativeOfPowerSentinelOne(base, exp, dbase) ==
    IF IsConstant(exp)
    THEN Multiply(Multiply(Constant(exp[2]),
                           Power(base, Constant(FSub(exp[2], Fin(1, 1))))),
                  dbase)
    ELSE IF exp = One THEN dbase ELSE Zero

\* The Power arm of derivative; dbase is base.derivative(var).
DerivativeOfPower(base, exp, dbase) ==
    IF IsConstant(exp)
    THEN Multiply(Multiply(Constant(exp[2]),
                           Power(base, Constant(FSub(exp[2], Fin(1, 1))))),
                  dbase)
    ELSE Zero

\* SymbolicExpr::derivative.
RECURSIVE derivative(_, _)
derivative(e, var) ==
    CASE Kind(e) = "Variable" -> DerivativeOfVariable(e[2], var)
      [] Kind(e) = "Constant" -> Zero
      [] Kind(e) = "Add"      -> Add(derivative(e[2], var), derivative(e[3], var))
      [] Kind(e) = "Subtract" -> Subtract(derivative(e[2], var), derivative(e[3], var))
      [] Kind(e) = "Multiply" ->
            Add(Multiply(derivative(e[2], var), e[3]),
                Multiply(e[2], derivative(e[3], var)))
      [] Kind(e) = "Divide" ->
            Divide(Subtract(Multiply(derivative(e[2], var), e[3]),
                            Multiply(e[2], derivative(e[3], var))),
                   Power(e[3], Constant(Fin(2, 1))))
      [] Kind(e) = "Power" -> DerivativeOfPower(e[2], e[3], derivative(e[2], var))
      [] Kind(e) = "Function" ->
            CASE e[2] = Sin /\ Len(e[3]) = 1 ->
                    Multiply(Function(Cos, e[3]), derivative(e[3][1], var))
              [] e[2] = Cos /\ Len(e[3]) = 1 ->
                    Multiply(Subtract(Zero, Function(Sin, e[3])),
                             derivative(e[3][1], var))
              [] OTHER -> Zero
      [] OTHER -> Zero

----------------------------------------------------------------------------
(* tensor.rs.  Index tuples hold the code's 0-based indices; a metric is a *)
(* sequence of rows, so the code's metric[i][j] is metric[i + 1][j + 1].   *)

TensorComponent(indices, expression) == [indices |-> indices, expression |-> expression]
StageResult(components, n) == [components |-> components, dimension |-> n]

At(m, i, j) == m[i + 1][j + 1]

\* The index tuples of the nested loops `for .. in 0..n`, in loop order.
Indices2(n) == [k \in 1..(n * n) |-> <<(k - 1) \div n, (k - 1) % n>>]
Indices3(n) == [k \in 1..(n * n * n) |->
                    <<(k - 1) \div (n * n), ((k - 1) \div n) % n, (k - 1) % n>>]
Indices4(n) == [k \in 1..(n * n * n * n) |->
                    <<(k - 1) \div (n * n * n), ((k - 1) \div (n * n)) % n,
                      ((k - 1) \div n) % n, (k - 1) % n>>]

\* parse_metric_tensor.
parse_metric_tensor(metric_strings, coordNames) ==
    LET n == Len(metric_strings)
    IN  IF \E i \in 1..n : Len(metric_strings[i]) # n
        THEN Err("InvalidMetric")
        ELSE Bind([i \in 1..n |-> [j \in 1..n |-> parse(metric_strings[i][j])]],
                  LAMBDA cell :
                    IF \E i \in 1..n, j \in 1..n : ~IsOk(cell[i][j])
                    THEN Panic
                    ELSE Ok([i \in 1..n |-> [j \in 1..n |-> cell[i][j].val]]))

\* Mutation: the diagonal cofactors are not swapped.
MetricInverseUnswapped(m) ==
    LET n == Len(m)
        det == Subtract(Multiply(At(m, 0, 0), At(m, 1, 1)),
                        Multiply(At(m, 0, 1), At(m, 1, 0)))
        inv_det == Divide(One, det)
    IN  IF n = 2
        THEN << << Multiply(inv_det, At(m, 0, 0)),
                   Multiply(inv_det, Subtract(Zero, At(m, 0, 1))) >>,
                << Multiply(inv_det, Subtract(Zero, At(m, 1, 0))),
                   Multiply(inv_det, At(m, 1, 1)) >> >>
        ELSE [i \in 1..n |-> [j \in 1..n |-> IF i = j THEN One ELSE Zero]]

\* Mutation: the placeholder puts Constant(1.0), not the One sentinel, on the
\* diagonal.
MetricInverseConstantOne(m) ==
    LET n == Len(m)
        det == Subtract(Multiply(At(m, 0, 0), At(m, 1, 1)),
                        Multiply(At(m, 0, 1), At(m, 1, 0)))
        inv_det == Divide(One, det)
    IN  IF n = 2
        THEN << << Multiply(inv_det, At(m, 1, 1)),
                   Multiply(inv_det, Subtract(Zero, At(m, 0, 1))) >>,
                << Multiply(inv_det, Subtract(Zero, At(m, 1, 0))),
                   Multiply(inv_det, At(m, 0, 0)) >> >>
        ELSE [i \in 1..n |-> [j \in 1..n |->
                IF i = j THEN Constant(Fin(1, 1)) ELSE Zero]]

\* Mutation: the placeholder of the other sizes is the zero matrix.
MetricInverseZeroPlaceholder(m) ==
    LET n == Len(m)
        det == Subtract(Multiply(At(m, 0, 0), At(m, 1, 1)),
                        Multiply(At(m, 0, 1), At(m, 1, 0)))
        inv_det == Divide(One, det)
    IN  IF n = 2
        THEN << << Multiply(inv_det, At(m, 1, 1)),
                   Multiply(inv_det, Subtract(Zero, At(m, 0, 1))) >>,
                << Multiply(inv_det, Subtract(Zero, At(m, 1, 0))),
                   Multiply(inv_det, At(m, 0, 0)) >> >>
        ELSE [i \in 1..n |-> [j \in 1..n |-> Zero]]

\* calculate_metric_inverse.
calculate_metric_inverse(m) ==
    LET n == Len(m)
        det == Subtract(Multiply(At(m, 0, 0), At(m, 1, 1)),
                        Multiply(At(m, 0, 1), At(m, 1, 0)))
        inv_det == Divide(One, det)
    IN  IF n = 2
        THEN << << Multiply(inv_det, At(m, 1, 1)),
                   Multiply(inv_det, Subtract(Zero, At(m, 0, 1))) >>,
                << Multiply(inv_det, Subtract(Zero, At(m, 1, 0))),
                   Multiply(inv_det, At(m, 0, 0)) >> >>
        ELSE [i \in 1..n |-> [j \in 1..n |-> IF i = j THEN One ELSE Zero]]

\* `coords[i]` is in range.
InRange(names, i) == i < Len(names)
Coord(names, i) == names[i + 1]

\* The body of the stage loops: value(idx) is the simplified expression of
\* index tuple idx; only non-zero components are pushed, in loop order.
Emit(idx, value(_)) ==
    Bind(idx, LAMBDA ix :
        Bind([k \in 1..Len(ix) |-> [indices |-> ix[k], simplified |-> value(ix[k])]],
             LAMBDA all :
                Bind(SelectSeq(all, LAMBDA c : ~is_zero(c.simplified)), LAMBDA kept :
                    [k \in 1..Len(kept) |->
                        TensorComponent(kept[k].indices, Display(kept[k].simplified))])))

\* The inner `for nu in 0..n` of calculate_christoffel_symbols, after `count` rounds.
RECURSIVE ChristoffelSum(_, _, _, _, _, _, _)

\* Mutation: the term d g[nu][alpha] / d x^beta is missing from the sum.
ChristoffelSumDropsTerm(m, inv, names, mu, alpha, beta, count) ==
    IF count = 0 THEN Zero
    ELSE LET nu == count - 1
             sum == Subtract(derivative(At(m, nu, beta), Coord(names, alpha)),
                             derivative(At(m, alpha, beta), Coord(names, nu)))
         IN  Add(ChristoffelSum(m, inv, names, mu, alpha, beta, nu),
                 Multiply(At(inv, mu, nu), sum))

ChristoffelSum(m, inv, names, mu, alpha, beta, count) ==
    IF count = 0 THEN Zero
    ELSE LET nu == count - 1
             sum == Subtract(Add(derivative(At(m, nu, beta), Coord(names, alpha)),
                                 derivative(At(m, nu, alpha), Coord(names, beta))),
                             derivative(At(m, alpha, beta), Coord(names, nu)))
         IN  Add(ChristoffelSum(m, inv, names, mu, alpha, beta, nu),
                 Multiply(At(inv, mu, nu), sum))

\* Mutation: the factor 1/2 of the Christoffel formula is missing.
ChristoffelComponentNoHalf(m, inv, names, idx) ==
    Bind(ChristoffelSum(m, inv, names, idx[1], idx[2], idx[3], Len(m)), simplify)

ChristoffelComponent(m, inv, names, idx) ==
    Bind(Multiply(Constant(Fin(1, 2)),
                  ChristoffelSum(m, inv, names, idx[1], idx[2], idx[3], Len(m))),
         simplify)

\* Mutation: the dimension field counts the coordinate names.
ChristoffelDimensionFromCoords(m, names) ==
    LET n == Len(m)
    IN  Bind(calculate_metric_inverse(m), LAMBDA inv :
            IF \E i \in 0..(n - 1) : ~InRange(names, i)
            THEN Panic
            ELSE Ok([symbols |-> Emit(Indices3(n),
                                      LAMBDA idx : ChristoffelComponent(m, inv, names, idx)),
                     dimension |-> Len(names)]))

\* calculate_christoffel_symbols.
calculate_christoffel_symbols(m, names) ==
    LET n == Len(m)
    IN  Bind(calculate_metric_inverse(m), LAMBDA inv :
            IF \E i \in 0..(n - 1) : ~InRange(names, i)
            THEN Panic
            ELSE Ok([symbols |-> Emit(Indices3(n),
                                      LAMBDA idx : ChristoffelComponent(m, inv, names, idx)),
                     dimension |-> n]))

\* Mutation: a slot keeps the first component that names it.
ReinflateFirstWins(comps, idx, rank) ==
    Bind2(SelectSeq(comps, LAMBDA c : Len(c.indices) = rank), Range(idx),
          LAMBDA ranked, slots :
            LET first(t) == CHOOSE k \in 1..Len(ranked) :
                              /\ ranked[k].indices = t
                              /\ \A j \in 1..(k - 1) : ranked[j].indices # t
            IN  Bind([k \in 1..Len(ranked) |-> parse(ranked[k].expression)], LAMBDA parsed :
                    IF \E k \in 1..Len(ranked) : \/ ~IsOk(parsed[k])
                                                  \/ ranked[k].indices \notin slots
                    THEN Panic
                    ELSE Ok([t \in slots |->
                                IF \E k \in 1..Len(ranked) : ranked[k].indices = t
                                THEN parsed[first(t)].val
                                ELSE Zero])))

\* symbols_to_tensor / riemann_result_to_tensor / ricci_result_to_matrix: the
\* dense tensor, as a function of index tuples.  The loop takes the components
\* of the right rank in order and stores parse(expression) at their index
\* tuple, so a slot ends with the parse of the last component that names it.
Reinflate(comps, idx, rank) ==
    Bind2(SelectSeq(comps, LAMBDA c : Len(c.indices) = rank), Range(idx),
          LAMBDA ranked, slots :
            LET last(t) == CHOOSE k \in 1..Len(ranked) :
                              /\ ranked[k].indices = t
                              /\ \A j \in (k + 1)..Len(ranked) : ranked[j].indices # t
            IN  Bind([k \in 1..Len(ranked) |-> parse(ranked[k].expression)], LAMBDA parsed :
                    IF \E k \in 1..Len(ranked) : \/ ~IsOk(parsed[k])
                                                  \/ ranked[k].indices \notin slots
                    THEN Panic
                    ELSE Ok([t \in slots |->
                                IF \E k \in 1..Len(ranked) : ranked[k].indices = t
                                THEN parsed[last(t)].val
                                ELSE Zero])))

symbols_to_tensor(christoffel_result, n) ==
    Reinflate(christoffel_result.symbols, Indices3(n), 3)
riemann_result_to_tensor(riemann_result, n) ==
    Reinflate(riemann_result.components, Indices4(n), 4)
\* Mutation: a component [mu, nu] is stored at matrix[nu][mu].
RicciResultToMatrixTransposed(ricci_result, n) ==
    Reinflate([k \in 1..Len(ricci_result.components) |->
                  LET c == ricci_result.components[k]
                  IN  IF Len(c.indices) = 2
                      THEN TensorComponent(<<c.indices[2], c.indices[1]>>, c.expression)
                      ELSE c],
              Indices2(n), 2)

ricci_result_to_matrix(ricci_result, n) ==
    Reinflate(ricci_result.components, Indices2(n), 2)

\* The `for lambda in 0..n` loop of calculate_riemann_tensor, after `count` rounds.
RECURSIVE RiemannSum(_, _, _, _, _, _, _)
RiemannSum(gamma, names, rho, sigma, mu, nu, count) ==
    IF count = 0
    THEN Add(Zero, Subtract(derivative(gamma[<<rho, sigma, nu>>], Coord(names, mu)),
                            derivative(gamma[<<rho, sigma, mu>>], Coord(names, nu))))
    ELSE LET lambda == count - 1
             term1 == Multiply(gamma[<<rho, lambda, mu>>], gamma[<<lambda, sigma, nu>>])
             term2 == Multiply(gamma[<<rho, lambda, nu>>], gamma[<<lambda, sigma, mu>>])
         IN  Add(RiemannSum(gamma, names, rho, sigma, mu, nu, lambda),
                 Subtract(term1, term2))

RiemannComponent(gamma, names, n, idx) ==
    Bind(RiemannSum(gamma, names, idx[1], idx[2], idx[3], idx[4], n), simplify)

\* calculate_riemann_tensor.
calculate_riemann_tensor(m, names) ==
    LET n == Len(m)
    IN  Bind(calculate_christoffel_symbols(m, names), LAMBDA christoffel_result :
            IF ~IsOk(christoffel_result) THEN christoffel_result
            ELSE Bind(symbols_to_tensor(christoffel_result.val, n), LAMBDA christoffel :
                    IF ~IsOk(christoffel) THEN Panic
                    ELSE Ok(StageResult(
                            Emit(Indices4(n),
                                 LAMBDA idx : RiemannComponent(christoffel.val, names, n, idx)),
                            n))))

\* The `for rho in 0..n` loop of calculate_ricci_tensor, after `count` rounds.
RECURSIVE RicciSum(_, _, _, _)
RicciSum(riemann, mu, nu, count) ==
    IF count = 0 THEN Zero
    ELSE Add(RicciSum(riemann, mu, nu, count - 1),
             riemann[<<count - 1, mu, count - 1, nu>>])

RicciComponent(riemann, n, idx) == Bind(RicciSum(riemann, idx[1], idx[2], n), simplify)

\* calculate_ricci_tensor.
calculate_ricci_tensor(m, names) ==
    LET n == Len(m)
    IN  Bind(calculate_riemann_tensor(m, names), LAMBDA riemann_result :
            IF ~IsOk(riemann_result) THEN riemann_result
            ELSE Bind(riemann_result_to_tensor(riemann_result.val, n), LAMBDA riemann :
                    IF ~IsOk(riemann) THEN Panic
                    ELSE Ok(StageResult(
                            Emit(Indices2(n),
                                 LAMBDA idx : RicciComponent(riemann.val, n, idx)),
                            n))))

\* The `for mu .. for nu ..` loops of calculate_ricci_scalar, after `count` rounds.
RECURSIVE ScalarSum(_, _, _, _)
ScalarSum(inv, ricci, idx, count) ==
    IF count = 0 THEN Zero
    ELSE LET mu == idx[count][1]
             nu == idx[count][2]
         IN  Add(ScalarSum(inv, ricci, idx, count - 1),
                 Multiply(At(inv, mu, nu), ricci[<<mu, nu>>]))

\* Mutation: a zero scalar is filtered as in the list stages, leaving a
\* component without text.
RicciScalarOmitsZero(m, names) ==
    LET n == Len(m)
    IN  Bind(calculate_ricci_tensor(m, names), LAMBDA ricci_result :
            IF ~IsOk(ricci_result) THEN ricci_result
            ELSE Bind2(ricci_result_to_matrix(ricci_result.val, n),
                       calculate_metric_inverse(m),
                       LAMBDA ricci, metric_inv :
                         IF ~IsOk(ricci) THEN Panic
                         ELSE Bind(Bind(ScalarSum(metric_inv, ricci.val, Indices2(n), n * n),
                                        simplify),
                                   LAMBDA simplified :
                                     IF is_zero(simplified)
                                     THEN Ok(TensorComponent(<<>>, <<>>))
                                     ELSE Ok(TensorComponent(<<>>, Display(simplified))))))

\* calculate_ricci_scalar.
calculate_ricci_scalar(m, names) ==
    LET n == Len(m)
    IN  Bind(calculate_ricci_tensor(m, names), LAMBDA ricci_result :
            IF ~IsOk(ricci_result) THEN ricci_result
            ELSE Bind2(ricci_result_to_matrix(ricci_result.val, n),
                       calculate_metric_inverse(m),
                       LAMBDA ricci, metric_inv :
                         IF ~IsOk(ricci) THEN Panic
                         ELSE Bind(Bind(ScalarSum(metric_inv, ricci.val, Indices2(n), n * n),
                                        simplify),
                                   LAMBDA simplified :
                                     Ok(TensorComponent(<<>>, Display(simplified))))))

EinsteinComponent(m, ricci, scalar, idx) ==
    Bind(Subtract(ricci[idx],
                  Multiply(Constant(Fin(1, 2)),
                           Multiply(At(m, idx[1], idx[2]), scalar))),
         simplify)

\* calculate_einstein_tensor.
calculate_einstein_tensor(m, names) ==
    LET n == Len(m)
    IN  Bind(calculate_ricci_tensor(m, names), LAMBDA ricci_result :
          IF ~IsOk(ricci_result) THEN ricci_result
          ELSE Bind(ricci_result_to_matrix(ricci_result.val, n), LAMBDA ricci :
            IF ~IsOk(ricci) THEN Panic
            ELSE Bind(calculate_ricci_scalar(m, names), LAMBDA ricci_scalar :
              IF ~IsOk(ricci_scalar) THEN ricci_scalar
              ELSE Bind(parse(ricci_scalar.val.expression), LAMBDA ricci_scalar_expr :
                IF ~IsOk(ricci_scalar_expr) THEN Panic
                ELSE Ok(StageResult(
                        Emit(Indices2(n),
                             LAMBDA idx : EinsteinComponent(m, ricci.val,
                                                            ricci_scalar_expr.val, idx)),
                        n))))))

----------------------------------------------------------------------------
(* Bounds and input sets *)

\* Largest metric size run through the curvature pipeline.
PipeDim == 3

CoordPool == <<"r", "t", "x", "y", "z", "u", "v", "w">>
\* The first k coordinate names: r, t, x, ...
CoordNames(k) == [i \in 1..k |-> <<CoordPool[i]>>]

\* Cell texts of the pipeline's metrics: diagonal and off-diagonal.
DiagTexts == { <<"-","1">>, <<"1">>, <<"2",".","5">>, <<"r","^","2">>,
               <<"s","i","n","(","r",")">> }
\* <<above, below>> the diagonal: diagonal, symmetric and lower-triangular shapes.
OffTexts  == { << <<"0">>, <<"0">> >>, << <<"2">>, <<"2">> >>,
               << <<"r">>, <<"r">> >>, << <<"0">>, <<"r">> >> }
\* A cell the power pattern matches although its exponent is no f64 literal.
BadPower  == <<"r", "^", "U+0663">>

\* The n x n text matrix with a, b alternating on the diagonal, c above it
\* and d below it.
MetricRows(n, a, b, c, d) ==
    [i \in 1..n |-> [j \in 1..n |->
        IF i = j THEN (IF i % 2 = 1 THEN a ELSE b)
        ELSE IF i < j THEN c ELSE d]]

\* A matrix whose last row lost its last cell: not square.
Ragged(m) == [i \in 1..Len(m) |->
                 IF i = Len(m) THEN SubSeq(m[i], 1, Len(m[i]) - 1) ELSE m[i]]

PipelineRows ==
    LET square == {MetricRows(n, a, b, off[1], off[2]) :
                      n \in 0..PipeDim, a \in DiagTexts, b \in DiagTexts,
                      off \in OffTexts}
    IN  square \cup {Ragged(MetricRows(2, <<"1">>, <<"1">>, <<"0">>, <<"0">>)),
                      Ragged(MetricRows(3, BadPower, <<"1">>, <<"0">>, <<"0">>)),
                      << <<>> >>,
                      MetricRows(1, BadPower, BadPower, <<"0">>, <<"0">>),
                      MetricRows(2, <<"1">>, BadPower, <<"0">>, <<"0">>)}

\* The Schwarzschild metric of solve_spherically_symmetric_vacuum, as cell
\* texts, and its coordinates [t, r, theta, phi].
SchwarzschildDiag ==
    << <<"-","(","1"," ","-"," ","2","*","M","/","r",")">>,
       <<"1","/","(","1"," ","-"," ","2","*","M","/","r",")">>,
       <<"r","^","2">>,
       <<"r","^","2"," ","*"," ","s","i","n","(","t","h","e","t","a",")","^","2">> >>
SchwarzschildRows ==
    [i \in 1..4 |-> [j \in 1..4 |-> IF i = j THEN SchwarzschildDiag[i] ELSE <<"0">>]]
SchwarzschildCoords == << <<"t">>, <<"r">>, <<"t","h","e","t","a">>, <<"p","h","i">> >>

----------------------------------------------------------------------------
(* The curvature pipeline as the command line drives it: parse the metric, *)
(* then run one stage on it (the compute_ functions of main.rs).           *)

InitPipeline ==
    /\ pc = "start"
    /\ \/ /\ rows \in PipelineRows
          /\ coords \in {CoordNames(k) : k \in 0..PipeDim}
       \/ /\ rows = SchwarzschildRows
          /\ coords = SchwarzschildCoords
    /\ metric = <<>>
    /\ out = Ok(<<>>)
    /\ prev = Ok(<<>>)
    /\ text = <<>> /\ expr = Zero /\ wrt = <<>>

ParseMetric ==
    /\ pc = "start"
    /\ out' = parse_metric_tensor(rows, coords)
    /\ metric' = IF IsOk(out') THEN out'.val ELSE metric
    /\ pc' = IF IsOk(out') THEN "parsed" ELSE "rejected"
    /\ UNCHANGED <<text, expr, wrt, rows, coords, prev>>

Christoffel ==
    /\ pc = "parsed"
    /\ out' = calculate_christoffel_symbols(metric, coords)
    /\ pc' = "christoffel"
    /\ UNCHANGED <<text, expr, wrt, rows, coords, metric, prev>>

Riemann ==
    /\ pc = "parsed"
    /\ out' = calculate_riemann_tensor(metric, coords)
    /\ pc' = "riemann"
    /\ UNCHANGED <<text, expr, wrt, rows, coords, metric, prev>>

Ricci ==
    /\ pc = "parsed"
    /\ out' = calculate_ricci_tensor(metric, coords)
    /\ pc' = "ricci"
    /\ UNCHANGED <<text, expr, wrt, rows, coords, metric, prev>>

RicciScalar ==
    /\ pc = "parsed"
    /\ out' = calculate_ricci_scalar(metric, coords)
    /\ pc' = "scalar"
    /\ UNCHANGED <<text, expr, wrt, rows, coords, metric, prev>>

Einstein ==
    /\ pc = "parsed"
    /\ out' = calculate_einstein_tensor(metric, coords)
    /\ pc' = "einstein"
    /\ UNCHANGED <<text, expr, wrt, rows, coords, metric, prev>>

NextPipeline == ParseMetric \/ Christoffel \/ Riemann \/ Ricci \/ RicciScalar \/ Einstein

SpecPipeline == InitPipeline /\ [][NextPipeline]_vars

----------------------------------------------------------------------------
(* Properties of the curvature pipeline *)

Stages == {"christoffel", "riemann", "ricci", "scalar", "einstein"}

\* Every cell of m is a Constant, Zero or One node.
IsConstantMetric(m) ==
    \A i \in 1..Len(m), j \in 1..Len(m) : Kind(m[i][j]) \in {"Constant", "Zero", "One"}

\* One coordinate name for each dimension of the metric.
CoordsCover(m, names) == Len(names) >= Len(m)

\* Some row's length differs from the number of rows.
IsJagged(r) == \E i \in 1..Len(r) : Len(r[i]) # Len(r)

\* C1: for a square metric whose cells are all Constant, Zero or One (with a
\* coordinate name for each dimension), the Christoffel, Riemann, Ricci and
\* Einstein stages return an empty component list and the Ricci scalar's text
\* is "0".
C1_ConstantMetricIsFlat ==
    (IsConstantMetric(metric) /\ CoordsCover(metric, coords)) =>
        /\ pc = "christoffel" => out = Ok([symbols |-> <<>>, dimension |-> Len(metric)])
        /\ pc \in {"riemann", "ricci", "einstein"} =>
                out = Ok(StageResult(<<>>, Len(metric)))
        /\ pc = "scalar" => out = Ok(TensorComponent(<<>>, <<"0">>))

\* The flat 2-D metric diag(-1, 1) with two coordinate names went through the
\* Einstein stage.
C1_Witness ==
    /\ pc = "einstein"
    /\ metric = << <<Constant(Fin(-1, 1)), Zero>>, <<Zero, One>> >>
    /\ Len(coords) = 2
    /\ out = Ok(StageResult(<<>>, 2))

\* C4: parse_metric_tensor returns InvalidMetric when some row's length differs
\* from the number of rows, returns the matrix of the cells' parses for every
\* square input, and never terminates abnormally.
C4_ParseMetricTotal ==
    /\ pc = "rejected" => IsJagged(rows) /\ out = Err("InvalidMetric")
    /\ pc \in {"parsed"} \cup Stages =>
            /\ ~IsJagged(rows)
            /\ Len(metric) = Len(rows)
            /\ \A i \in 1..Len(rows) :
                    /\ Len(metric[i]) = Len(rows)
                    /\ \A j \in 1..Len(rows) : Ok(metric[i][j]) = parse(rows[i][j])

\* C5: every stage, run on an accepted metric with the coordinate list passed
\* alongside it, whatever its length, ends with a result or an explicit error.
C5_StagesNeverFault ==
    pc \in Stages => out.kind \in {"Ok", "Err"}

----------------------------------------------------------------------------
(* The metric inverse on its own: calculate_metric_inverse, then simplify   *)
(* applied to each entry (as the Christoffel stage does inside its sums).   *)

\* Largest metric size handed to calculate_metric_inverse.
InvDim == 4

Var(c) == Variable(<<c>>)

\* Metric entries: sentinels, constants, and entries simplify leaves or changes.
InvEntries == { Zero, One, Constant(Fin(-1, 1)), Constant(Fin(2, 1)), Var("r"),
                Power(Var("r"), Constant(Fin(2, 1))), Function(Sin, <<Var("r")>>),
                Multiply(One, Var("x")), Add(Constant(Fin(1, 1)), Constant(Fin(1, 1))) }

\* The n x n matrix with a, b alternating on the diagonal and c elsewhere.
MetricOf(n, a, b, c) ==
    [i \in 1..n |-> [j \in 1..n |->
        IF i = j THEN (IF i % 2 = 1 THEN a ELSE b) ELSE c]]

InverseMetrics ==
    {MetricOf(n, a, b, c) : n \in 0..InvDim, a \in InvEntries, b \in InvEntries,
                            c \in {Zero, Var("r")}}

InitInverse ==
    /\ pc = "start"
    /\ metric \in InverseMetrics
    /\ out = Ok(<<>>)
    /\ prev = Ok(<<>>)
    /\ text = <<>> /\ expr = Zero /\ wrt = <<>> /\ rows = <<>> /\ coords = <<>>

Invert ==
    /\ pc = "start"
    /\ out' = Ok(calculate_metric_inverse(metric))
    /\ pc' = "inverted"
    /\ UNCHANGED <<text, expr, wrt, rows, coords, metric, prev>>

SimplifyEntries ==
    /\ pc = "inverted"
    /\ prev' = out
    /\ out' = Ok([i \in 1..Len(out.val) |->
                    [j \in 1..Len(out.val[i]) |-> Bind(out.val[i][j], simplify)]])
    /\ pc' = "inverse_simplified"
    /\ UNCHANGED <<text, expr, wrt, rows, coords, metric>>

NextInverse == Invert \/ SimplifyEntries

SpecInverse == InitInverse /\ [][NextInverse]_vars

\* A 2 x 2 metric whose off-diagonal entries are the Zero sentinel.
IsDiagonal2(m) == Len(m) = 2 /\ m[1][2] = Zero /\ m[2][1] = Zero

\* C2 as stated, for diag(a, b) with no zero on the diagonal: the simplified
\* inverse is exactly diag(1/a, 1/b), whether 1/a is read as Divide(One, a)
\* with a as given, with a simplified, or as simplify(Divide(One, a)).
Reciprocals(a) == {Divide(One, a), Divide(One, simplify(a)), simplify(Divide(One, a))}

C2_InverseIsReciprocal ==
    (/\ pc = "inverse_simplified"
     /\ IsDiagonal2(metric)
     /\ ~is_zero(simplify(metric[1][1]))
     /\ ~is_zero(simplify(metric[2][2]))) =>
        /\ out.val[1][1] \in Reciprocals(metric[1][1])
        /\ out.val[2][2] \in Reciprocals(metric[2][2])
        /\ out.val[1][2] = Zero
        /\ out.val[2][1] = Zero

\* C2, amended: the simplified inverse of diag(a, b) has Zero off the diagonal
\* and the uncancelled products (1 / (a * b)) * b and (1 / (a * b)) * a on it;
\* entry [0][0] is Divide(One, a) only when b simplifies to the One sentinel
\* (and a to no sentinel), and likewise entry [1][1].
C2_InverseIsUncancelledProduct ==
    (pc = "inverse_simplified" /\ IsDiagonal2(metric)) =>
        LET a  == metric[1][1]
            b  == metric[2][2]
            sa == simplify(a)
            sb == simplify(b)
            sentinel == {Zero, One}
            product == IF IsConstant(sa) /\ IsConstant(sb)
                       THEN Constant(FMul(sa[2], sb[2]))
                       ELSE Multiply(sa, sb)
        IN  /\ out.val[1][2] = Zero
            /\ out.val[2][1] = Zero
            /\ out.val[1][1] = simplify(Multiply(Divide(One, Multiply(a, b)), b))
            /\ out.val[2][2] = simplify(Multiply(Divide(One, Multiply(a, b)), a))
            /\ (sa \notin sentinel /\ sb \notin sentinel) =>
                    /\ out.val[1][1] = Multiply(Divide(One, product), sb)
                    /\ out.val[2][2] = Multiply(Divide(One, product), sa)
            /\ (sa \notin sentinel /\ sb = One) =>
                    /\ out.val[1][1] = Divide(One, sa)
                    /\ out.val[2][2] = Multiply(Divide(One, sa), sa)
            /\ (sa = One /\ sb \notin sentinel) =>
                    /\ out.val[1][1] = Multiply(Divide(One, sb), sb)
                    /\ out.val[2][2] = Divide(One, sb)
            /\ (sa = One /\ sb = One) => out.val[1][1] = One /\ out.val[2][2] = One

\* The inverse of diag(r, sin(r)) was simplified: neither diagonal entry is a
\* plain reciprocal.
C2_Witness ==
    /\ pc = "inverse_simplified"
    /\ metric = MetricOf(2, Var("r"), Function(Sin, <<Var("r")>>), Zero)
    /\ out.val[1][1] = Multiply(Divide(One, Multiply(Var("r"), Function(Sin, <<Var("r")>>))),
                                Function(Sin, <<Var("r")>>))

\* C3: for a metric whose size n is not 2, calculate_metric_inverse returns the
\* n x n identity (One on the diagonal, Zero elsewhere) whatever the entries.
C3_InverseIsIdentityPlaceholder ==
    (pc = "inverted" /\ Len(metric) # 2) =>
        /\ out.kind = "Ok"
        /\ Len(out.val) = Len(metric)
        /\ \A i \in 1..Len(metric) :
                /\ Len(out.val[i]) = Len(metric)
                /\ \A j \in 1..Len(metric) :
                        out.val[i][j] = IF i = j THEN One ELSE Zero

\* A 3 x 3 metric with no Zero or One entry got the identity as its inverse.
C3_Witness ==
    /\ pc = "inverted"
    /\ metric = MetricOf(3, Var("r"), Constant(Fin(2, 1)), Var("r"))
    /\ out.val = << <<One, Zero, Zero>>, <<Zero, One, Zero>>, <<Zero, Zero, One>> >>

----------------------------------------------------------------------------
(* simplify on its own, applied once and then again to its own result *)

\* Largest integer constant among the expressions handed to simplify.
MaxConst == 2

Binary(kind, l, r) == <<kind, l, r>>

\* Some Constant in e holds a value this model does not represent exactly.
RECURSIVE HasOther(_)
HasOther(e) ==
    CASE Kind(e) = "Constant" -> e[2][1] = "other"
      [] Kind(e) \in BinaryKinds -> HasOther(e[2]) \/ HasOther(e[3])
      [] Kind(e) = "Function" -> \E i \in 1..Len(e[3]) : HasOther(e[3][i])
      [] OTHER -> FALSE

\* Leaves: the sentinels, constants (0.0, 1.0, ..., NaN), a variable, and a
\* Function node with a composite argument.
SimplifyLeaves ==
    {Zero, One, Constant(FNaN), Var("r"), Function(Sin, <<Add(Var("r"), Zero)>>)}
        \cup {Constant(Fin(k, 1)) : k \in 0..MaxConst}

\* One operator over two leaves.
SimplifyPairs ==
    {Binary(k, a, b) : k \in BinaryKinds, a \in SimplifyLeaves, b \in SimplifyLeaves}

\* All ten node kinds, to depth two.
SimplifyExprs ==
    SimplifyLeaves \cup SimplifyPairs
        \cup {Binary(k, a, b) : k \in BinaryKinds, a \in SimplifyPairs, b \in SimplifyLeaves}
        \cup {Binary(k, a, b) : k \in BinaryKinds, a \in SimplifyLeaves, b \in SimplifyPairs}

InitSimplify ==
    /\ pc = "start"
    /\ expr \in {e \in SimplifyExprs : ~HasOther(simplify(e))}
    /\ out = Zero
    /\ prev = Zero
    /\ text = <<>> /\ wrt = <<>> /\ rows = <<>> /\ coords = <<>> /\ metric = <<>>

Simplify ==
    /\ pc = "start"
    /\ out' = simplify(expr)
    /\ pc' = "simplified"
    /\ UNCHANGED <<text, expr, wrt, rows, coords, metric, prev>>

SimplifyAgain ==
    /\ pc = "simplified"
    /\ prev' = out
    /\ out' = simplify(out)
    /\ pc' = "resimplified"
    /\ UNCHANGED <<text, expr, wrt, rows, coords, metric>>

NextSimplify == Simplify \/ SimplifyAgain

SpecSimplify == InitSimplify /\ [][NextSimplify]_vars

\* C6: simplify is idempotent: simplifying a simplified expression gives the
\* same tree, node for node.
C6_SimplifyIdempotent ==
    pc = "resimplified" => out = prev

\* A sum was reduced to a Function node whose argument is still composite, and
\* simplified again.
C6_Witness ==
    /\ pc = "resimplified"
    /\ expr = Add(Multiply(One, Zero), Function(Sin, <<Add(Var("r"), Zero)>>))
    /\ prev = Function(Sin, <<Add(Var("r"), Zero)>>)
    /\ out = prev

IsOneOperand(e) == e = One \/ e = Constant(Fin(1, 1))

\* Equal, or both a zero, or both a one.
SameValue(x, y) ==
    x = y \/ (is_zero(x) /\ is_zero(y)) \/ (IsOneOperand(x) /\ IsOneOperand(y))

\* C7 as stated: the identities x+0=x, x*0=0, x*1=x, x/1=x, x^0=1, x^1=x,
\* 0^n=0 (n # 0) and 1^n=1 hold where 0 is any operand with is_zero (Zero or
\* Constant(0)) and 1 is One or Constant(1).
C7_IdentitiesOnAnyZeroOrOne ==
    (pc = "simplified" /\ Kind(expr) \in BinaryKinds) =>
        LET k == Kind(expr)
            a == expr[2]
            b == expr[3]
        IN  /\ (k = "Add" /\ is_zero(b)) => SameValue(out, simplify(a))
            /\ (k = "Add" /\ is_zero(a)) => SameValue(out, simplify(b))
            /\ (k = "Multiply" /\ (is_zero(a) \/ is_zero(b))) => is_zero(out)
            /\ (k = "Multiply" /\ IsOneOperand(b)) => SameValue(out, simplify(a))
            /\ (k = "Multiply" /\ IsOneOperand(a)) => SameValue(out, simplify(b))
            /\ (k = "Divide" /\ IsOneOperand(b)) => SameValue(out, simplify(a))
            /\ (k = "Power" /\ is_zero(b)) => IsOneOperand(out)
            /\ (k = "Power" /\ IsOneOperand(b)) => SameValue(out, simplify(a))
            /\ (k = "Power" /\ is_zero(a) /\ ~is_zero(b)) => is_zero(out)
            /\ (k = "Power" /\ IsOneOperand(a)) => IsOneOperand(out)

\* C7, amended: the identities hold where 0 is an operand that simplifies to
\* the Zero sentinel and 1 one that simplifies to the One sentinel; a
\* Constant(0) or Constant(1) operand is only folded with another Constant, and
\* next to any other non-sentinel operand the node is kept as it is.
C7_IdentitiesOnSentinels ==
    (pc = "simplified" /\ Kind(expr) \in BinaryKinds) =>
        LET k  == Kind(expr)
            sa == simplify(expr[2])
            sb == simplify(expr[3])
        IN  /\ (k = "Add" /\ sb = Zero) => out = sa
            /\ (k = "Add" /\ sa = Zero) => out = sb
            /\ (k = "Multiply" /\ (sa = Zero \/ sb = Zero)) => out = Zero
            /\ (k = "Multiply" /\ sb = One) => out = sa
            /\ (k = "Multiply" /\ sa = One) => out = sb
            /\ (k = "Divide" /\ sb = One) => out = sa
            /\ (k = "Power" /\ sb = Zero) => out = One
            /\ (k = "Power" /\ sb = One) => out = sa
            /\ (k = "Power" /\ sa = Zero /\ sb # Zero) => out = Zero
            /\ (k = "Power" /\ sa = One) => out = One
            /\ (/\ k \in {"Add", "Multiply", "Divide", "Power"}
                /\ IsConstant(sb) /\ ~IsConstant(sa) /\ sa \notin {Zero, One}) =>
                    out = Binary(k, sa, sb)
            /\ (/\ k \in {"Add", "Multiply"}
                /\ IsConstant(sa) /\ ~IsConstant(sb) /\ sb \notin {Zero, One}) =>
                    out = Binary(k, sa, sb)

\* x * 1 = x fired on an operand that itself simplified (r + 0 to r), and
\* r^1 with the exponent Constant(1.0) that parse produces was kept.
C7_Witness ==
    /\ pc = "simplified"
    /\ \/ expr = Multiply(Add(Var("r"), Zero), One) /\ out = Var("r")
       \/ expr = Power(Var("r"), Constant(Fin(1, 1))) /\ out = expr

----------------------------------------------------------------------------
(* derivative on its own *)

\* Variable and differentiation names (texts), one of them empty.
DerivNames == { <<"r">>, <<"t">>, <<"t","h","e","t","a">>, <<"r","2">>, <<>> }

DerivLeaves ==
    {Zero, One, Constant(FNaN), Constant(FInf), Constant(Fin(-1, 2))}
        \cup {Constant(Fin(k, 1)) : k \in 0..MaxConst}
        \cup {Variable(v) : v \in DerivNames}

\* Composite bases and arguments, whose own derivative is not a leaf.
DerivBases ==
    { Add(Var("r"), Var("t")), Multiply(Constant(Fin(2, 1)), Var("r")),
      Power(Var("r"), Constant(Fin(2, 1))), Function(Sin, <<Var("r")>>),
      Function(<<"f">>, <<Var("r")>>) }

DerivExprs ==
    DerivLeaves
        \cup {Binary(k, a, b) : k \in BinaryKinds, a \in DerivLeaves, b \in DerivLeaves}
        \cup {Function(f, <<a>>) : f \in {Sin, Cos, <<"f">>}, a \in DerivLeaves}
        \cup {Function(Sin, <<>>), Function(Cos, <<Var("r"), Var("t")>>)}
        \cup {Power(b, x) : b \in DerivBases, x \in DerivLeaves}
        \cup {Function(f, <<b>>) : f \in {Sin, Cos, <<"t","a","n">>}, b \in DerivBases}

InitDerivative ==
    /\ pc = "start"
    /\ expr \in DerivExprs
    /\ wrt \in DerivNames
    /\ out = Zero
    /\ prev = Zero
    /\ text = <<>> /\ rows = <<>> /\ coords = <<>> /\ metric = <<>>

Differentiate ==
    /\ pc = "start"
    /\ out' = derivative(expr, wrt)
    /\ pc' = "differentiated"
    /\ UNCHANGED <<text, expr, wrt, rows, coords, metric, prev>>

NextDerivative == Differentiate

SpecDerivative == InitDerivative /\ [][NextDerivative]_vars

\* C10: derivative(Variable(v), w) is One when v = w and Zero otherwise; the
\* derivative of a Constant, Zero or One is Zero for every w.
C10_DerivativeOfLeaves ==
    pc = "differentiated" =>
        /\ Kind(expr) = "Variable" =>
                /\ expr[2] = wrt => out = One
                /\ expr[2] # wrt => out = Zero
        /\ Kind(expr) \in {"Constant", "Zero", "One"} => out = Zero

\* A variable was differentiated by another name, of which its own is a prefix.
C10_Witness ==
    /\ pc = "differentiated"
    /\ expr = Variable(<<"r">>)
    /\ wrt = <<"r", "2">>
    /\ out = Zero

----------------------------------------------------------------------------
(* parse on its own *)

\* Longest text built from ParseAlphabet.
MaxText == 3

ParseAlphabet == {"r", "0", "1", "2", "^", "(", ")", ",", " ", "U+0663"}

\* The texts over alphabet of length n.
RECURSIVE TextsOfLen(_, _)
TextsOfLen(alphabet, n) ==
    IF n = 0 THEN {<<>>}
    ELSE {<<c>> \o t : c \in alphabet, t \in TextsOfLen(alphabet, n - 1)}

\* Longer texts: float literals, identifiers, powers, calls and fallbacks.
ParseSamples ==
    { <<"i", "n", "f">>,
      <<"N", "a", "N">>,
      <<"n", "a", "n">>,
      <<"I", "n", "f", "i", "n", "i", "t", "y">>,
      <<"-", "i", "n", "f">>,
      <<"+", "1">>,
      <<"1", ".", "0">>,
      <<"1", "e", "3">>,
      <<"-", "1", ".", "5">>,
      <<".", "5">>,
      <<"2", ".">>,
      <<"e", "5">>,
      <<"_", "x", "1">>,
      <<"t", "h", "e", "t", "a">>,
      <<"x", "_", "1">>,
      <<"4", "2">>,
      <<"0", "0", "7">>,
      <<" ", "s", "i", "n", "(", " ", "r", "^", "2", " ", ",", " ", "x", " ", ")", " ">>,
      <<"c", "o", "s", "(", "t", "h", "e", "t", "a", ")">>,
      <<"f", "(", ")">>,
      <<"f", "(", "1", ",", ",", "n", "a", "n", ")">>,
      <<"f", "(", "r", "^", "U+0663", ")">>,
      <<"g", "(", "U+0663", ")">>,
      <<"f", "(", "g", "(", "r", ")", ")">>,
      <<"f", "(", "g", "(", "r", ")">>,
      <<"a", " ", "+", " ", "b">>,
      <<"(", "a", " ", "+", " ", "b", ")">>,
      <<"x", "^", "-", "1">>,
      <<"x", "^", "2", ".", "5">>,
      <<"2", "^", "r">>,
      <<"r", "^", "2", "^", "2">>,
      <<"r", "^", "1", "2">>,
      <<"_", "^", "0">>,
      <<" ", "\t", " ">>,
      <<"r", "U+0663">>,
      <<"1", "e">>,
      <<"-", "-", "1">> }

ParseTexts == ParseSamples \cup UNION {TextsOfLen(ParseAlphabet, n) : n \in 0..MaxText}

InitParse ==
    /\ pc = "start"
    /\ text \in ParseTexts
    /\ out = Ok(Zero)
    /\ prev = Ok(Zero)
    /\ expr = Zero /\ wrt = <<>> /\ rows = <<>> /\ coords = <<>> /\ metric = <<>>

Parse ==
    /\ pc = "start"
    /\ out' = parse(text)
    /\ pc' = "parse_done"
    /\ UNCHANGED <<text, expr, wrt, rows, coords, metric, prev>>

NextParse == Parse

SpecParse == InitParse /\ [][NextParse]_vars

\* The shapes of text the grammar names, stated on the trimmed text.
IsFloatLiteral(t) == ParseF64(t).ok
HatAt(t, k) == k \in 2..(Len(t) - 1) /\ t[k] = "^" /\ IsIdent(SubSeq(t, 1, k - 1))
\* name^digits with the digits 0-9.
IsPowerText(t) ==
    \E k \in 1..Len(t) : HatAt(t, k) /\ IsDigits(SubSeq(t, k + 1, Len(t)))
\* name^digits where some digit is a decimal digit outside 0-9.
IsForeignPowerText(t) ==
    \E k \in 1..Len(t) :
        /\ HatAt(t, k)
        /\ \A i \in (k + 1)..Len(t) : IsRegexDigit(t[i])
        /\ \E i \in (k + 1)..Len(t) : t[i] \notin AsciiDigit
OpenAt(t, k) ==
    /\ k \in 2..(Len(t) - 1) /\ t[k] = "(" /\ IsIdent(SubSeq(t, 1, k - 1))
    /\ t[Len(t)] = ")"
    /\ \A i \in (k + 1)..(Len(t) - 1) : t[i] \notin {"(", ")"}
\* name(args,...) with a single unnested parenthesis group.
IsFunctionText(t) == \E k \in 1..Len(t) : OpenAt(t, k)
\* The comma-separated arguments of a function text, in order.
ArgTexts(t) ==
    LET k == CHOOSE i \in 1..Len(t) : OpenAt(t, i)
        inner == SubSeq(t, k + 1, Len(t) - 1)
    IN  IF inner = <<>> THEN <<>> ELSE Split(inner, ",")
FunctionName(t) == SubSeq(t, 1, (CHOOSE i \in 1..Len(t) : OpenAt(t, i)) - 1)
PowerOf(t) ==
    LET k == CHOOSE i \in 1..Len(t) : HatAt(t, i)
    IN  Power(Variable(SubSeq(t, 1, k - 1)),
              Constant(Fin(DigitsVal(SubSeq(t, k + 1, Len(t))), 1)))

\* The sentinel, literal, power and call rules, as C8 states them; a call is
\* compared when the parse of each argument returns.
ParseRulesHold(t, result) ==
    /\ t = <<"0">> => result = Ok(Zero)
    /\ t = <<"1">> => result = Ok(One)
    /\ (IsFloatLiteral(t) /\ t \notin {<<"0">>, <<"1">>}) =>
            /\ IsOk(result) /\ IsConstant(result.val)
            /\ IsDigits(t) => result.val = Constant(Fin(DigitsVal(t), 1))
    /\ IsPowerText(t) => result = Ok(PowerOf(t))
    /\ (IsFunctionText(t) /\ \A i \in 1..Len(ArgTexts(t)) : IsOk(parse(ArgTexts(t)[i]))) =>
            result = Ok(Function(FunctionName(t),
                                 [i \in 1..Len(ArgTexts(t)) |-> parse(ArgTexts(t)[i]).val]))

\* C8 as stated: "0" and "1" give the sentinels, any other float literal a
\* Constant, a token [A-Za-z_][A-Za-z0-9_]* gives Variable(name), name^digits
\* gives Power(Variable(name), Constant(digits)), and name(args,...) gives
\* Function(name, [parse of each argument]).
C8_ParseGrammar ==
    pc = "parse_done" =>
        /\ ParseRulesHold(Trim(text), out)
        /\ IsIdent(Trim(text)) => out = Ok(Variable(Trim(text)))

\* C8, amended: the rules are tried in order, so a token that is itself a
\* float literal (inf, infinity, nan, in any letter case) gives a Constant and
\* only the other tokens give Variable(name); name^digits gives the Power for
\* digits 0-9 and terminates abnormally for other decimal digits, and a call
\* terminates abnormally when the parse of an argument does.
C8_ParseGrammarInOrder ==
    pc = "parse_done" =>
        LET t == Trim(text)
        IN  /\ ParseRulesHold(t, out)
            /\ (IsIdent(t) /\ ~IsFloatLiteral(t)) => out = Ok(Variable(t))
            /\ (IsIdent(t) /\ IsFloatLiteral(t)) => IsOk(out) /\ IsConstant(out.val)
            /\ IsForeignPowerText(t) => out = Panic
            /\ (IsFunctionText(t) /\ \E i \in 1..Len(ArgTexts(t)) :
                                          ~IsOk(parse(ArgTexts(t)[i]))) => out = Panic

\* A call with a power and a variable as arguments, with white space around
\* them, was parsed.
C8_Witness ==
    /\ pc = "parse_done"
    /\ text = <<" ", "s", "i", "n", "(", " ", "r", "^", "2", " ", ",", " ", "x", " ", ")", " ">>
    /\ out = Ok(Function(Sin, <<Power(Var("r"), Constant(Fin(2, 1))), Var("x")>>))

\* No Add, Subtract, Multiply or Divide node in e.
RECURSIVE NoArithmetic(_)
NoArithmetic(e) ==
    CASE Kind(e) \in {"Add", "Subtract", "Multiply", "Divide"} -> FALSE
      [] Kind(e) = "Power" -> NoArithmetic(e[2]) /\ NoArithmetic(e[3])
      [] Kind(e) = "Function" -> \A i \in 1..Len(e[3]) : NoArithmetic(e[3][i])
      [] OTHER -> TRUE

\* name(...) with no closing parenthesis before the last character.
IsCallText(t) ==
    \E k \in 2..(Len(t) - 1) :
        /\ t[k] = "(" /\ IsIdent(SubSeq(t, 1, k - 1))
        /\ t[Len(t)] = ")"
        /\ \A i \in (k + 1)..(Len(t) - 1) : t[i] # ")"

\* The text matches one of the grammar's rules.
MatchesSomeRule(t) ==
    \/ t \in {<<"0">>, <<"1">>} \/ IsFloatLiteral(t) \/ IsIdent(t)
    \/ IsPowerText(t) \/ IsCallText(t)

\* C9: parse is total: it returns Ok for every text; empty or all-white-space
\* text gives Zero, and a text no rule matches gives Variable holding that
\* text, with no arithmetic structure extracted.
C9_ParseTotal ==
    pc = "parse_done" =>
        /\ IsOk(out)
        /\ Trim(text) = <<>> => out = Ok(Zero)
        /\ (Trim(text) # <<>> /\ ~MatchesSomeRule(Trim(text))) =>
                out = Ok(Variable(Trim(text)))
        /\ NoArithmetic(out.val)

\* C11: the derivative of Power(base, exp) is
\* Multiply(Multiply(Constant(n), Power(base, Constant(n - 1))), derivative(base))
\* exactly when exp is a Constant(n) node and Zero for every other exponent;
\* the derivative of Function(name, args) is the chain rule for sin and cos
\* with one argument and Zero for every other name or argument count.
C11_PowerAndFunctionRules ==
    pc = "differentiated" =>
        /\ Kind(expr) = "Power" =>
                IF Kind(expr[3]) = "Constant"
                THEN out = <<"Multiply",
                             <<"Multiply", expr[3],
                               <<"Power", expr[2],
                                 <<"Constant", FAdd(expr[3][2], Fin(-1, 1))>> >> >>,
                             derivative(expr[2], wrt)>>
                ELSE out = Zero
        /\ Kind(expr) = "Function" =>
                IF Len(expr[3]) = 1 /\ expr[2] = <<"s","i","n">>
                THEN out = <<"Multiply", <<"Function", <<"c","o","s">>, expr[3]>>,
                             derivative(expr[3][1], wrt)>>
                ELSE IF Len(expr[3]) = 1 /\ expr[2] = <<"c","o","s">>
                THEN out = <<"Multiply",
                             <<"Subtract", Zero, <<"Function", <<"s","i","n">>, expr[3]>> >>,
                             derivative(expr[3][1], wrt)>>
                ELSE out = Zero

\* (r + t)^One was differentiated by r: the sentinel exponent gives Zero.
C11_Witness ==
    /\ pc = "differentiated"
    /\ expr = Power(Add(Var("r"), Var("t")), One)
    /\ wrt = <<"r">>
    /\ out = Zero

\* r^2 was differentiated by r: the constant exponent gives 2 * r^1 * 1.
C11_WitnessConstantExponent ==
    /\ pc = "differentiated"
    /\ expr = Power(Var("r"), Constant(Fin(2, 1)))
    /\ wrt = <<"r">>
    /\ out = Multiply(Multiply(Constant(Fin(2, 1)), Power(Var("r"), Constant(Fin(1, 1)))), One)

----------------------------------------------------------------------------
(* Properties of the stages' component lists *)

\* The stages that store a sparse component list.
ListStages == {"christoffel", "riemann", "ricci", "einstein"}

\* The component list of a stage's result.
ComponentsOf(stage, result) ==
    IF stage = "christoffel" THEN result.symbols ELSE result.components

\* The rank of a stage's index tuples.
RankOf(stage) ==
    CASE stage = "christoffel" -> 3
      [] stage = "riemann" -> 4
      [] stage \in {"ricci", "einstein"} -> 2
      [] OTHER -> 0

\* The index tuples a stage's loops visit for an n x n metric.
TuplesOf(stage, n) ==
    CASE stage = "christoffel" -> Range(Indices3(n))
      [] stage = "riemann" -> Range(Indices4(n))
      [] OTHER -> Range(Indices2(n))

\* The simplified expression each stage computes for every index tuple it
\* visits, as a function of index tuples (m accepted, names covering it).
SimplifiedOf(stage, m, names) ==
    LET n == Len(m)
    IN  CASE stage = "christoffel" ->
                Bind(calculate_metric_inverse(m), LAMBDA inv :
                    [idx \in TuplesOf(stage, n) |-> ChristoffelComponent(m, inv, names, idx)])
          [] stage = "riemann" ->
                Bind(symbols_to_tensor(calculate_christoffel_symbols(m, names).val, n),
                     LAMBDA gamma :
                        [idx \in TuplesOf(stage, n) |->
                            RiemannComponent(gamma.val, names, n, idx)])
          [] stage = "ricci" ->
                Bind(riemann_result_to_tensor(calculate_riemann_tensor(m, names).val, n),
                     LAMBDA riemann :
                        [idx \in TuplesOf(stage, n) |-> RicciComponent(riemann.val, n, idx)])
          [] stage = "einstein" ->
                Bind2(ricci_result_to_matrix(calculate_ricci_tensor(m, names).val, n),
                      parse(calculate_ricci_scalar(m, names).val.expression),
                      LAMBDA ricci, scalar :
                        [idx \in TuplesOf(stage, n) |->
                            EinsteinComponent(m, ricci.val, scalar.val, idx)])

\* An uncancelled difference x - x.
IsSelfDifference(e) == Kind(e) = "Subtract" /\ e[2] = e[3]

\* C12: in the Christoffel, Riemann, Ricci and Einstein stages an index tuple
\* is absent from the component list if and only if its simplified expression
\* is the Zero sentinel or Constant(0); every other simplified expression, an
\* uncancelled x - x included, is emitted (once, as its text).
C12_AbsentIffZero ==
    (pc \in ListStages /\ IsOk(out)) =>
        Bind2(SimplifiedOf(pc, metric, coords), ComponentsOf(pc, out.val),
              LAMBDA value, comps :
                /\ \A k \in 1..Len(comps) : comps[k].indices \in DOMAIN value
                /\ \A idx \in DOMAIN value :
                     LET at == {k \in 1..Len(comps) : comps[k].indices = idx}
                     IN  IF value[idx] = <<"Zero">> \/ value[idx] = <<"Constant", <<"fin", 0, 1>> >>
                         THEN at = {}
                         ELSE /\ Cardinality(at) = 1
                              /\ \A k \in at : comps[k].expression = Display(value[idx]))

\* The Riemann stage emitted a component whose simplified expression is an
\* uncancelled difference x - x.
C12_Witness ==
    /\ pc = "riemann"
    /\ IsOk(out)
    /\ Bind(SimplifiedOf(pc, metric, coords), LAMBDA value :
            \E k \in 1..Len(out.val.components) :
                IsSelfDifference(value[out.val.components[k].indices]))

\* The simplified expression calculate_ricci_scalar computes (m accepted,
\* names covering it).
SimplifiedScalar(m, names) ==
    LET n == Len(m)
    IN  Bind2(ricci_result_to_matrix(calculate_ricci_tensor(m, names).val, n),
              calculate_metric_inverse(m),
              LAMBDA ricci, inv :
                Bind(ScalarSum(inv, ricci.val, Indices2(n), n * n), simplify))

\* C13: for every square metric with a coordinate name for each dimension,
\* calculate_ricci_scalar returns exactly one component, whose index tuple is
\* empty and whose text is that of the simplified scalar: "0" when it is zero.
C13_ScalarAlwaysEmitted ==
    (pc = "scalar" /\ CoordsCover(metric, coords)) =>
        /\ IsOk(out)
        /\ DOMAIN out.val = {"indices", "expression"}
        /\ out.val.indices = <<>>
        /\ Bind(SimplifiedScalar(metric, coords), LAMBDA scalar :
                /\ out.val.expression = Display(scalar)
                /\ (scalar = <<"Zero">> \/ scalar = <<"Constant", <<"fin", 0, 1>> >>)
                        => out.val.expression = <<"0">>)

\* The scalar of a 3 x 3 metric of constants is zero and was returned as the
\* one component "0".
C13_Witness ==
    /\ pc = "scalar"
    /\ Len(metric) = 3
    /\ Len(coords) = 3
    /\ IsConstantMetric(metric)
    /\ out = Ok(TensorComponent(<<>>, <<"0">>))

\* A scalar that is not zero was returned as the one component.
C13_WitnessNonZero ==
    /\ pc = "scalar"
    /\ CoordsCover(metric, coords)
    /\ IsOk(out)
    /\ out.val.indices = <<>>
    /\ out.val.expression # <<"0">>

\* C14: for every square n x n metric, every component a stage emits has an
\* index tuple of the stage's rank (3 for Christoffel, 4 for Riemann, 2 for
\* Ricci and Einstein) with every index in [0, n), and the result's dimension
\* field is n, the size of the originating metric.
C14_IndicesInRange ==
    (pc \in ListStages /\ IsOk(out)) =>
        LET n == Len(rows)
            comps == ComponentsOf(pc, out.val)
        IN  /\ out.val.dimension = n
            /\ \A k \in 1..Len(comps) :
                    /\ Len(comps[k].indices) = RankOf(pc)
                    /\ \A p \in 1..Len(comps[k].indices) :
                            comps[k].indices[p] \in 0..(n - 1)

\* The Christoffel stage of a 2 x 2 metric, given three coordinate names,
\* emitted components.
C14_Witness ==
    /\ pc = "christoffel"
    /\ Len(rows) = 2
    /\ Len(coords) = 3
    /\ IsOk(out)
    /\ out.val.symbols # <<>>
    /\ out.val.dimension = 2

----------------------------------------------------------------------------
(* Reinflation of a stored component list: symbols_to_tensor,              *)
(* riemann_result_to_tensor and ricci_result_to_matrix, called by the next *)
(* stage with n = metric.len(), the dimension of the stored result.        *)

\* Longest component list reinflated.
MaxComps == 2
\* Largest dimension of a reinflated list.
ReinflateDim == 2

\* rank copies of index i.
Repeat(i, rank) == [p \in 1..rank |-> i]

\* Index tuples of the lists: the first and the last tuple of the rank, a
\* tuple outside the tensor, and a tuple one index short.
ReinflateTuples(n, rank) ==
    {Repeat(0, rank), Repeat(n - 1, rank), Repeat(n, rank), Repeat(0, rank - 1)}

\* Expression texts of the lists: a variable, a power, a parenthesized sum and
\* a text on which parse does not return.
ReinflateTexts ==
    { <<"r">>, <<"r","^","2">>, <<"(","r"," ","+"," ","t",")">>, BadPower }

RECURSIVE SeqsUpTo(_, _)
SeqsUpTo(S, len) ==
    IF len = 0 THEN {<<>>}
    ELSE LET shorter == SeqsUpTo(S, len - 1)
         IN  shorter \cup {Append(s, x) : s \in {q \in shorter : Len(q) = len - 1}, x \in S}

ReinflateLists(n, rank) ==
    SeqsUpTo({TensorComponent(t, e) : t \in ReinflateTuples(n, rank), e \in ReinflateTexts},
             MaxComps)

InitReinflate ==
    /\ pc = "stored"
    /\ \E n \in 1..ReinflateDim :
            \/ \E l \in ReinflateLists(n, 3) : prev = Ok([symbols |-> l, dimension |-> n])
            \/ \E l \in ReinflateLists(n, 4) \cup ReinflateLists(n, 2) :
                    prev = Ok(StageResult(l, n))
    /\ out = Ok(<<>>)
    /\ text = <<>> /\ expr = Zero /\ wrt = <<>>
    /\ rows = <<>> /\ coords = <<>> /\ metric = <<>>

SymbolsToTensor ==
    /\ pc = "stored"
    /\ "symbols" \in DOMAIN prev.val
    /\ out' = symbols_to_tensor(prev.val, prev.val.dimension)
    /\ pc' = "symbols_to_tensor"
    /\ UNCHANGED <<text, expr, wrt, rows, coords, metric, prev>>

RiemannResultToTensor ==
    /\ pc = "stored"
    /\ "components" \in DOMAIN prev.val
    /\ out' = riemann_result_to_tensor(prev.val, prev.val.dimension)
    /\ pc' = "riemann_result_to_tensor"
    /\ UNCHANGED <<text, expr, wrt, rows, coords, metric, prev>>

RicciResultToMatrix ==
    /\ pc = "stored"
    /\ "components" \in DOMAIN prev.val
    /\ out' = ricci_result_to_matrix(prev.val, prev.val.dimension)
    /\ pc' = "ricci_result_to_matrix"
    /\ UNCHANGED <<text, expr, wrt, rows, coords, metric, prev>>

NextReinflate == SymbolsToTensor \/ RiemannResultToTensor \/ RicciResultToMatrix

SpecReinflate == InitReinflate /\ [][NextReinflate]_vars

\* The rank of the tensor a reinflation builds.
ReinflatedRank(at) ==
    CASE at = "symbols_to_tensor" -> 3
      [] at = "riemann_result_to_tensor" -> 4
      [] at = "ricci_result_to_matrix" -> 2
      [] OTHER -> 0

Reinflated == {"symbols_to_tensor", "riemann_result_to_tensor", "ricci_result_to_matrix"}

\* All index tuples of a rank with every index in [0, n).
AllTuples(n, rank) == [1..rank -> 0..(n - 1)]

\* The list is one of dimension n for the rank: its tuples of that rank lie in
\* the tensor, and parse returns on their texts.
IsListOfDimension(comps, n, rank) ==
    \A k \in 1..Len(comps) :
        Len(comps[k].indices) = rank =>
            /\ comps[k].indices \in AllTuples(n, rank)
            /\ IsOk(parse(comps[k].expression))

\* C15: reinflating a component list of dimension n yields a dense tensor of
\* side n that holds Zero at every index tuple not listed and parse(text) at
\* every listed tuple of the right rank; a component of another rank is
\* skipped, and of two components with the same tuple the later one wins.
C15_ReinflateDense ==
    pc \in Reinflated =>
        LET rank == ReinflatedRank(pc)
            n == prev.val.dimension
            comps == ComponentsOf(IF "symbols" \in DOMAIN prev.val
                                  THEN "christoffel" ELSE "riemann", prev.val)
            listing(t) == {k \in 1..Len(comps) : comps[k].indices = t}
        IN  IsListOfDimension(comps, n, rank) =>
                /\ IsOk(out)
                /\ DOMAIN out.val = AllTuples(n, rank)
                /\ \A t \in AllTuples(n, rank) :
                        IF listing(t) = {}
                        THEN out.val[t] = <<"Zero">>
                        ELSE \E k \in listing(t) :
                                /\ \A j \in listing(t) : j <= k
                                /\ Ok(out.val[t]) = parse(comps[k].expression)

\* A list naming tuple (0, 0, 0) twice, with different texts, was reinflated
\* by symbols_to_tensor: the slot holds the parse of the later text.
C15_Witness ==
    /\ pc = "symbols_to_tensor"
    /\ prev.val.symbols = << TensorComponent(<<0, 0, 0>>, <<"r">>),
                             TensorComponent(<<0, 0, 0>>, <<"r","^","2">>) >>
    /\ IsOk(out)
    /\ out.val[<<0, 0, 0>>] = Power(Variable(<<"r">>), Constant(Fin(2, 1)))

\* A list holding a component of rank 1 and one of rank 2 was reinflated by
\* ricci_result_to_matrix: the rank-1 component was skipped.
C15_WitnessWrongRank ==
    /\ pc = "ricci_result_to_matrix"
    /\ prev.val.dimension = 2
    /\ prev.val.components = << TensorComponent(<<0>>, BadPower),
                                TensorComponent(<<1, 1>>, <<"r">>) >>
    /\ out = Ok([t \in AllTuples(2, 2) |->
                    IF t = <<1, 1>> THEN Variable(<<"r">>) ELSE Zero])

\* The Schwarzschild metric was accepted with its four coordinate names.
IsSchwarzschild == rows = SchwarzschildRows /\ coords = SchwarzschildCoords

\* C16: for the Schwarzschild metric with coordinates [t, r, theta, phi] the
\* inverse metric used is the identity placeholder (One on the diagonal, Zero
\* elsewhere), and the text calculate_ricci_scalar returns is not "0".
C16_SchwarzschildScalarNonZero ==
    (IsSchwarzschild /\ pc \in Stages) =>
        /\ calculate_metric_inverse(metric) =
                [i \in 1..4 |-> [j \in 1..4 |-> IF i = j THEN <<"One">> ELSE <<"Zero">>]]
        /\ pc = "scalar" =>
                /\ IsOk(out)
                /\ out.val.indices = <<>>
                /\ out.val.expression # <<"0">>

\* The Ricci scalar of the Schwarzschild metric was computed.
C16_Witness ==
    /\ IsSchwarzschild
    /\ pc = "scalar"
    /\ IsOk(out)
    /\ Len(out.val.expression) > 1

----------------------------------------------------------------------------
(* einstein.rs: the catalogue of exact solutions and its verification.     *)

\* The symmetry tags solve_vacuum_einstein_equations matches.
Spherical == <<"s","p","h","e","r","i","c","a","l">>
Cosmological == <<"c","o","s","m","o","l","o","g","i","c","a","l">>
Axisymmetric == <<"a","x","i","s","y","m","m","e","t","r","i","c">>

\* A solution of the catalogue.
EinsteinSolution(metric_tensor, coordinates, solution_type, parameters, domain) ==
    [metric_tensor |-> metric_tensor, coordinates |-> coordinates,
     solution_type |-> solution_type, constraints_satisfied |-> TRUE,
     physical_parameters |-> parameters, solution_domain |-> domain]

\* `vec![vec![Zero; 4]; 4]` with cells[k] = <<i, j, text>> assigned
\* `parse(text)?`: the first parse that does not return Ok ends the function.
CatalogMetric(cells) ==
    Bind([k \in 1..Len(cells) |-> parse(cells[k][3])], LAMBDA parsed :
        IF \E k \in 1..Len(cells) : ~IsOk(parsed[k])
        THEN parsed[CHOOSE k \in 1..Len(cells) :
                        ~IsOk(parsed[k]) /\ \A j \in 1..(k - 1) : IsOk(parsed[j])]
        ELSE Ok([i \in 1..4 |-> [j \in 1..4 |->
                    IF \E k \in 1..Len(cells) : cells[k][1] = i - 1 /\ cells[k][2] = j - 1
                    THEN parsed[CHOOSE k \in 1..Len(cells) :
                                    cells[k][1] = i - 1 /\ cells[k][2] = j - 1].val
                    ELSE Zero]]))

\* A diagonal 4 x 4 metric from its four cell texts.
DiagCells(a, b, c, d) == << <<0, 0, a>>, <<1, 1, b>>, <<2, 2, c>>, <<3, 3, d>> >>

SchwarzschildCells ==
    DiagCells(SchwarzschildDiag[1], SchwarzschildDiag[2],
              SchwarzschildDiag[3], SchwarzschildDiag[4])

ReissnerNordstromCells ==
    DiagCells(<<"-","(","1"," ","-"," ","2","*","M","/","r"," ","+"," ","Q",
                "^","2","/","r","^","2",")">>,
              <<"1","/","(","1"," ","-"," ","2","*","M","/","r"," ","+"," ",
                "Q","^","2","/","r","^","2",")">>,
              <<"r","^","2">>,
              <<"r","^","2"," ","*"," ","s","i","n","(","t","h","e","t","a",
                ")","^","2">>)

FlatFlrwCells ==
    DiagCells(<<"-","1">>,
              <<"a","(","t",")","^","2">>,
              <<"a","(","t",")","^","2"," ","*"," ","r","^","2">>,
              <<"a","(","t",")","^","2"," ","*"," ","r","^","2"," ","*"," ",
                "s","i","n","(","t","h","e","t","a",")","^","2">>)

DeSitterCells ==
    DiagCells(<<"-","1">>,
              <<"e","x","p","(","H","*","t",")","^","2">>,
              <<"e","x","p","(","H","*","t",")","^","2"," ","*"," ","r","^",
                "2">>,
              <<"e","x","p","(","H","*","t",")","^","2"," ","*"," ","r","^",
                "2"," ","*"," ","s","i","n","(","t","h","e","t","a",")","^",
                "2">>)

KerrOffDiagonal ==
    <<"-","2","*","M","*","r","*","a","*","s","i","n","(","t","h","e","t","a",
      ")","^","2","/","(","r","^","2"," ","+"," ","a","^","2","*","c","o","s",
      "(","t","h","e","t","a",")","^","2",")">>

\* kerr_metric[3][0] is a clone of kerr_metric[0][3].
KerrCells ==
    DiagCells(<<"-","(","1"," ","-"," ","2","*","M","*","r","/","(","r","^",
                "2"," ","+"," ","a","^","2","*","c","o","s","(","t","h","e",
                "t","a",")","^","2",")",")">>,
              <<"(","r","^","2"," ","+"," ","a","^","2","*","c","o","s","(",
                "t","h","e","t","a",")","^","2",")","/","(","r","^","2"," ",
                "-"," ","2","*","M","*","r"," ","+"," ","a","^","2",")">>,
              <<"r","^","2"," ","+"," ","a","^","2","*","c","o","s","(","t",
                "h","e","t","a",")","^","2">>,
              <<"s","i","n","(","t","h","e","t","a",")","^","2"," ","*"," ",
                "(","r","^","2"," ","+"," ","a","^","2"," ","+"," ","2","*",
                "M","*","r","*","a","^","2","*","s","i","n","(","t","h","e",
                "t","a",")","^","2","/","(","r","^","2"," ","+"," ","a","^",
                "2","*","c","o","s","(","t","h","e","t","a",")","^","2",")",
                ")">>)
        \o << <<0, 3, KerrOffDiagonal>>, <<3, 0, KerrOffDiagonal>> >>

\* solve_spherically_symmetric_vacuum: Schwarzschild and Reissner-Nordstrom.
solve_spherically_symmetric_vacuum(coordinates) ==
    IF Len(coordinates) # 4 THEN Err("ComputationError")
    ELSE Bind2(CatalogMetric(SchwarzschildCells), CatalogMetric(ReissnerNordstromCells),
               LAMBDA schwarzschild_metric, rn_metric :
                 IF ~IsOk(schwarzschild_metric) THEN schwarzschild_metric
                 ELSE IF ~IsOk(rn_metric) THEN rn_metric
                 ELSE Ok(<< EinsteinSolution(schwarzschild_metric.val, coordinates, "exact",
                                ("M" :> Variable(<<"M">>)), "r > 2M"),
                            EinsteinSolution(rn_metric.val, coordinates, "exact",
                                ("M" :> Variable(<<"M">>)) @@ ("Q" :> Variable(<<"Q">>)),
                                "r > M + sqrt(M^2 - Q^2)") >>))

\* solve_flrw_universe: flat FLRW and de Sitter.
solve_flrw_universe(coordinates) ==
    IF Len(coordinates) # 4 THEN Err("ComputationError")
    ELSE Bind2(CatalogMetric(FlatFlrwCells), CatalogMetric(DeSitterCells),
               LAMBDA flat_flrw_metric, de_sitter_metric :
                 IF ~IsOk(flat_flrw_metric) THEN flat_flrw_metric
                 ELSE IF ~IsOk(de_sitter_metric) THEN de_sitter_metric
                 ELSE Bind(parse(<<"3","*","H","^","2">>), LAMBDA lambda :
                    IF ~IsOk(lambda) THEN lambda
                    ELSE Ok(<< EinsteinSolution(flat_flrw_metric.val, coordinates, "exact",
                                    ("a(t)" :> Function(<<"a">>, <<Variable(<<"t">>)>>))
                                        @@ ("H" :> Variable(<<"H">>))
                                        @@ ("Omega_m" :> Variable(<<"O","m","e","g","a","_","m">>))
                                        @@ ("Omega_Lambda" :>
                                                Variable(<<"O","m","e","g","a","_",
                                                           "L","a","m","b","d","a">>)),
                                    "t > 0, spatial homogeneity"),
                               EinsteinSolution(de_sitter_metric.val, coordinates, "exact",
                                    ("H" :> Variable(<<"H">>)) @@ ("Lambda" :> lambda.val),
                                    "exponential expansion") >>)))

\* solve_axisymmetric_vacuum: the simplified Kerr metric; with another
\* number of coordinates the list stays empty.
solve_axisymmetric_vacuum(coordinates) ==
    IF Len(coordinates) = 4
    THEN Bind(CatalogMetric(KerrCells), LAMBDA kerr_metric :
            IF ~IsOk(kerr_metric) THEN kerr_metric
            ELSE Ok(<< EinsteinSolution(kerr_metric.val, coordinates, "exact",
                            ("M" :> Variable(<<"M">>)) @@ ("a" :> Variable(<<"a">>)),
                            "r > M + sqrt(M^2 - a^2)") >>))
    ELSE Ok(<<>>)

\* Mutation: the tag is matched without regard to letter case.
SolveVacuumIgnoringCase(coordinates, symmetry_ansatz) ==
    CASE Lowered(symmetry_ansatz) = Spherical -> solve_spherically_symmetric_vacuum(coordinates)
      [] Lowered(symmetry_ansatz) = Cosmological -> solve_flrw_universe(coordinates)
      [] Lowered(symmetry_ansatz) = Axisymmetric -> solve_axisymmetric_vacuum(coordinates)
      [] OTHER -> Err("ComputationError")

\* solve_vacuum_einstein_equations; no family reads the boundary conditions.
solve_vacuum_einstein_equations(coordinates, symmetry_ansatz) ==
    CASE symmetry_ansatz = Spherical -> solve_spherically_symmetric_vacuum(coordinates)
      [] symmetry_ansatz = Cosmological -> solve_flrw_universe(coordinates)
      [] symmetry_ansatz = Axisymmetric -> solve_axisymmetric_vacuum(coordinates)
      [] OTHER -> Err("ComputationError")

----------------------------------------------------------------------------
(* The solver as the command line drives it: solve_vacuum_equations of     *)
(* main.rs passes the coordinate list and the tag through.                 *)

\* Longest coordinate list given to the solver.
MaxCoords == 5

SolveTags ==
    { Spherical, Cosmological, Axisymmetric, <<>>, <<"S">> \o Tail(Spherical),
      <<"A">> \o Tail(Axisymmetric), Spherical \o <<" ">>, <<"k","e","r","r">>,
      <<"v","a","c","u","u","m">>, <<"c","o","s","m","o">> }

\* Coordinate lists: the first k of [t, r, theta, phi, ...] and of
\* [r, t, x, y, ...].
SolveCoords ==
    LET named == SchwarzschildCoords \o [k \in 1..(MaxCoords + 1) |-> <<"w", "x">>]
    IN  {SubSeq(named, 1, k) : k \in 0..MaxCoords}
            \cup {CoordNames(k) : k \in 0..MaxCoords}

InitSolve ==
    /\ pc = "start"
    /\ text \in SolveTags
    /\ coords \in SolveCoords
    /\ out = Ok(<<>>)
    /\ prev = Ok(<<>>)
    /\ expr = Zero /\ wrt = <<>> /\ rows = <<>> /\ metric = <<>>

Solve ==
    /\ pc = "start"
    /\ out' = solve_vacuum_einstein_equations(coords, text)
    /\ pc' = "solved"
    /\ UNCHANGED <<text, expr, wrt, rows, coords, metric, prev>>

NextSolve == Solve

SpecSolve == InitSolve /\ [][NextSolve]_vars

\* The tags with a family of solutions.
KnownTags == {Spherical, Cosmological, Axisymmetric}

\* The number of solutions each family holds for four coordinates.
FamilySize(tag) ==
    CASE tag = <<"s","p","h","e","r","i","c","a","l">> -> 2
      [] tag = <<"c","o","s","m","o","l","o","g","i","c","a","l">> -> 2
      [] tag = <<"a","x","i","s","y","m","m","e","t","r","i","c">> -> 1

\* C17: solve_vacuum_einstein_equations returns a ComputationError for every
\* tag other than "spherical", "cosmological" and "axisymmetric"; with four
\* coordinate names "spherical" returns exactly 2 solutions, "cosmological"
\* 2 and "axisymmetric" 1, each of type "exact" with a 4 x 4 metric and the
\* input coordinates.
C17_SolverCatalogue ==
    pc = "solved" =>
        /\ text \notin KnownTags => out = [kind |-> "Err", val |-> "ComputationError"]
        /\ (text \in KnownTags /\ Len(coords) = 4) =>
                /\ out.kind = "Ok"
                /\ Len(out.val) = FamilySize(text)
                /\ \A k \in 1..Len(out.val) :
                        /\ out.val[k].solution_type = "exact"
                        /\ out.val[k].coordinates = coords
                        /\ Len(out.val[k].metric_tensor) = 4
                        /\ \A i \in 1..4 : Len(out.val[k].metric_tensor[i]) = 4

\* "cosmological" with the four coordinates [r, t, x, y] returned two
\* solutions carrying those coordinates.
C17_Witness ==
    /\ pc = "solved"
    /\ text = Cosmological
    /\ coords = CoordNames(4)
    /\ IsOk(out)
    /\ Len(out.val) = 2
    /\ out.val[2].coordinates = coords

\* C18: whenever solve_vacuum_einstein_equations returns Ok, for any tag and
\* any coordinate list, the list of solutions is not empty; a request that
\* cannot be served is an error value.
C18_OkMeansSolutions ==
    (pc = "solved" /\ out.kind = "Ok") => Len(out.val) >= 1

----------------------------------------------------------------------------
(* verify_einstein_solution.  An Option is a sequence of at most one value. *)

None == <<>>
Some(x) == <<x>>

StressEnergyTensor(components, tensor_type) ==
    [components |-> components, tensor_type |-> tensor_type]

\* Mutation: a solution is refused when a cosmological constant is given.
VerifyReadsCosmologicalConstant(solution, stress_energy, cosmological_constant) ==
    Bind(calculate_einstein_tensor(solution.metric_tensor, solution.coordinates),
         LAMBDA einstein_tensor :
            IF ~IsOk(einstein_tensor) THEN einstein_tensor
            ELSE IF cosmological_constant # None THEN Ok(FALSE)
            ELSE IF stress_energy # None
                 THEN (IF solution.solution_type = "exact" THEN Ok(TRUE) ELSE Ok(FALSE))
                 ELSE Ok(TRUE))

\* verify_einstein_solution: the Einstein tensor is computed and dropped.
verify_einstein_solution(solution, stress_energy, cosmological_constant) ==
    Bind(calculate_einstein_tensor(solution.metric_tensor, solution.coordinates),
         LAMBDA einstein_tensor :
            IF ~IsOk(einstein_tensor) THEN einstein_tensor
            ELSE IF stress_energy # None
                 THEN (IF solution.solution_type = "exact" THEN Ok(TRUE) ELSE Ok(FALSE))
                 ELSE Ok(TRUE))

\* Largest metric of a drawn solution (the catalogue's are 4 x 4).
VerifyDim == 2

\* Metric entries of the drawn solutions; the last is a variable whose name
\* parse would not accept.
VerifyEntries ==
    { One, Var("r"), Power(Var("r"), Constant(Fin(2, 1))), Variable(BadPower) }

VerifyMetrics ==
    {MetricOf(n, a, b, c) : n \in 1..VerifyDim, a \in VerifyEntries, b \in VerifyEntries,
                            c \in {Zero, Var("r")}}

\* Two of the metrics solve_vacuum_einstein_equations hands out: a diagonal
\* one and the one with off-diagonal cells.
CatalogMetrics == {CatalogMetric(cells).val : cells \in {SchwarzschildCells, KerrCells}}

SolutionTypes == {"exact", "perturbative", "numerical", "unknown"}

\* Solutions with a name for each dimension, and some with one name short.
VerifySolutions ==
    UNION {{EinsteinSolution(m, CoordNames(k), ty, <<>>, "") :
                k \in {Len(m) - 1, Len(m)}, ty \in SolutionTypes} : m \in VerifyMetrics}
      \cup {EinsteinSolution(m, SchwarzschildCoords, ty, <<>>, "") :
                m \in CatalogMetrics, ty \in {"exact", "numerical"}}

StressEnergies ==
    { None,
      Some(StressEnergyTensor(<< <<Variable(<<"r","h","o">>)>> >>, "perfect_fluid")) }

CosmologicalConstants == { None, Some(Variable(<<"L">>)) }

InitVerify ==
    /\ pc = "start"
    /\ \E s \in VerifySolutions, se \in StressEnergies, cc \in CosmologicalConstants :
            prev = [solution |-> s, stress_energy |-> se, cosmological_constant |-> cc]
    /\ out = Ok(<<>>)
    /\ text = <<>> /\ expr = Zero /\ wrt = <<>>
    /\ rows = <<>> /\ coords = <<>> /\ metric = <<>>

Verify ==
    /\ pc = "start"
    /\ out' = verify_einstein_solution(prev.solution, prev.stress_energy,
                                       prev.cosmological_constant)
    /\ pc' = "verified"
    /\ UNCHANGED <<text, expr, wrt, rows, coords, metric, prev>>

NextVerify == Verify

SpecVerify == InitVerify /\ [][NextVerify]_vars

\* C19: verify_einstein_solution returns Ok(true) for every solution of type
\* "exact" with a square n x n metric and n coordinate names, whatever its
\* metric entries, stress-energy tensor and cosmological constant; the verdict
\* is fixed by the solution type and by whether a stress-energy tensor is
\* given (without one it is true, with one it is true for "exact" alone), so
\* two solutions agreeing on both get the same verdict.
C19_VerdictIgnoresMetric ==
    (pc = "verified"
        /\ Len(prev.solution.coordinates) = Len(prev.solution.metric_tensor)) =>
            /\ prev.solution.solution_type = "exact" => out = [kind |-> "Ok", val |-> TRUE]
            /\ out = [kind |-> "Ok",
                      val |-> (prev.stress_energy = <<>>
                                \/ prev.solution.solution_type = "exact")]

\* The Kerr solution, of type "exact", was verified against a perfect fluid
\* and a cosmological constant, and accepted.
C19_Witness ==
    /\ pc = "verified"
    /\ prev.solution.metric_tensor = CatalogMetric(KerrCells).val
    /\ prev.solution.solution_type = "exact"
    /\ prev.stress_energy # None
    /\ prev.stress_energy[1].tensor_type = "perfect_fluid"
    /\ prev.cosmological_constant = Some(Variable(<<"L">>))
    /\ out = Ok(TRUE)

----------------------------------------------------------------------------
(* The round trip between stages: a stage stores simplified.to_string()    *)
(* and the next stage parses the text and differentiates the result.       *)

\* The opaque text of a parenthesized sum.
SumText == <<"(","r"," ","+"," ","t",")">>

\* Variable names: identifiers, and texts parse's variable rule never gives.
RoundTripNames ==
    { <<"r">>, <<"t">>, <<"t","h","e","t","a">>, <<"_","x","1">>, <<"i","n","f">>,
      <<"2","x">>, SumText, <<"r","^","2">>, <<"r","^","2",".","5">>,
      <<"f","(","r",")">>, <<" ","r">>, <<>>, BadPower }

RoundTripLeaves ==
    {Zero, One, Constant(FNaN), Constant(FInf), Constant(Fin(-1, 1)),
     Constant(Fin(1, 2)), Constant(Fin(5, 2))}
        \cup {Constant(Fin(k, 1)) : k \in 0..MaxConst}
        \cup {Variable(v) : v \in RoundTripNames}

\* The differentiable shapes parse gives, as operands and arguments.
RoundTripShapes ==
    { Power(Var("r"), Constant(Fin(2, 1))), Function(Sin, <<Var("r")>>),
      Add(Var("r"), Var("t")) }

RoundTripExprs ==
    RoundTripLeaves
        \cup {Binary(k, a, b) : k \in BinaryKinds, a \in RoundTripLeaves, b \in RoundTripLeaves}
        \cup {Binary(k, a, b) : k \in BinaryKinds, a \in RoundTripShapes, b \in RoundTripShapes}
        \cup {Function(f, args) :
                f \in {Sin, <<"f">>, <<"2","f">>},
                args \in {<<>>} \cup {<<a>> : a \in RoundTripLeaves \cup RoundTripShapes}
                            \cup {<<Var("r"), b>> : b \in RoundTripShapes}}

\* Coordinate names: identifiers, and one that is the text of a sum.
RoundTripCoords == { <<"r">>, <<"t","h","e","t","a">>, SumText }

InitRoundTrip ==
    /\ pc = "computed"
    /\ expr \in RoundTripExprs
    /\ wrt \in RoundTripCoords
    /\ text = <<>>
    /\ out = Ok(Zero)
    /\ prev = Zero
    /\ rows = <<>> /\ coords = <<>> /\ metric = <<>>

\* expression: simplified.to_string()
Store ==
    /\ pc = "computed"
    /\ text' = Display(expr)
    /\ pc' = "stored"
    /\ UNCHANGED <<expr, wrt, rows, coords, metric, out, prev>>

\* SymbolicExpr::parse(&component.expression)
Reparse ==
    /\ pc = "stored"
    /\ out' = parse(text)
    /\ pc' = "reparsed"
    /\ UNCHANGED <<text, expr, wrt, rows, coords, metric, prev>>

\* tensor[..].derivative(&coords[..]) in the next stage
Rederive ==
    /\ pc = "reparsed"
    /\ IsOk(out)
    /\ prev' = derivative(out.val, wrt)
    /\ pc' = "rederived"
    /\ UNCHANGED <<text, expr, wrt, rows, coords, metric, out>>

NextRoundTrip == Store \/ Reparse \/ Rederive

SpecRoundTrip == InitRoundTrip /\ [][NextRoundTrip]_vars

ArithmeticKinds == {"Add", "Subtract", "Multiply", "Divide"}

\* A Constant holding a non-negative integer.
IsNaturalConstant(e) == Kind(e) = "Constant" /\ e[2][1] = "fin" /\ e[2][3] = 1 /\ e[2][2] >= 0

\* A name of letters, digits and underscores: an identifier, or any other
\* token parse's variable rule accepts.
IsNameToken(s) ==
    /\ Len(s) > 0
    /\ \A i \in 1..Len(s) : IsAlphanumeric(s[i]) \/ s[i] = "_"

\* The shapes named as surviving the round trip; anyName lifts the
\* restriction of Variable names to identifiers.
RECURSIVE IsRoundTripShape(_, _)
IsRoundTripShape(e, anyName) ==
    CASE Kind(e) \in {"Zero", "One", "Constant"} -> TRUE
      [] Kind(e) = "Variable" -> anyName \/ IsNameToken(e[2])
      [] Kind(e) = "Power" ->
            /\ Kind(e[2]) = "Variable"
            /\ anyName \/ IsNameToken(e[2][2])
            /\ IsNaturalConstant(e[3])
      [] Kind(e) = "Function" ->
            \A i \in 1..Len(e[3]) : IsRoundTripShape(e[3][i], anyName)
      [] OTHER -> FALSE

\* The stored expression is an arithmetic node: its text is the parenthesized
\* infix text, it re-parses as one Variable holding that text, and the
\* derivative of that Variable by an identifier coordinate is Zero.
OpaqueAfterRoundTrip ==
    Kind(expr) \in ArithmeticKinds =>
        /\ pc \in {"stored", "reparsed", "rederived"} =>
                /\ text[1] = "(" /\ text[Len(text)] = ")"
                /\ text = <<"(">> \o Display(expr[2])
                            \o <<" ", CASE Kind(expr) = "Add" -> "+"
                                        [] Kind(expr) = "Subtract" -> "-"
                                        [] Kind(expr) = "Multiply" -> "*"
                                        [] OTHER -> "/", " ">>
                            \o Display(expr[3]) \o <<")">>
        /\ pc \in {"reparsed", "rederived"} => out = Ok(<<"Variable", text>>)
        /\ (pc = "rederived" /\ IsIdent(wrt)) => prev = <<"Zero">>

\* C20 (as stated): a stored Add, Subtract, Multiply or Divide node is
\* re-parsed as one opaque Variable holding its text, whose derivative by
\* every identifier coordinate is Zero; and only Zero, One, Constant,
\* identifier Variable, Power(Variable, non-negative integer Constant) and
\* Function with such arguments come back from format-then-parse unchanged.
C20_OnlyIdentifierShapesSurvive ==
    /\ OpaqueAfterRoundTrip
    /\ (pc = "reparsed" /\ out = Ok(expr)) => IsRoundTripShape(expr, FALSE)

\* C20 (amended): as above, with Variable of any name among the shapes that
\* come back unchanged: an opaque Variable re-parses as itself.
C20_OnlyParseShapesSurvive ==
    /\ OpaqueAfterRoundTrip
    /\ (pc = "reparsed" /\ out = Ok(expr)) => IsRoundTripShape(expr, TRUE)

\* The sum r + t was stored as "(r + t)", re-parsed as the Variable of that
\* name and differentiated by r to Zero.
C20_Witness ==
    /\ pc = "rederived"
    /\ expr = Add(Var("r"), Var("t"))
    /\ text = SumText
    /\ out = Ok(Variable(SumText))
    /\ wrt = <<"r">>
    /\ prev = Zero

\* The opaque Variable "(r + t)" came back from the round trip unchanged.
C20_WitnessOpaqueSurvives ==
    /\ pc = "reparsed"
    /\ expr = Variable(SumText)
    /\ out = Ok(expr)

----------------------------------------------------------------------------
(* One call of calculate_einstein_tensor, statement by statement: the calls *)
(* it makes, the stage runs they start, and the values it keeps.            *)

\* Largest metric size of the traced call.
CallDim == 2

StageNames == {"christoffel", "riemann", "ricci", "scalar"}
NoRuns == [s \in StageNames |-> 0]
\* One more run of each of the stages named.
Ran(runs, stages) ==
    [s \in StageNames |-> IF s \in stages THEN runs[s] + 1 ELSE runs[s]]

\* calculate_ricci_tensor calls calculate_riemann_tensor, which calls
\* calculate_christoffel_symbols.
RunsOfRicciTensor(runs) == Ran(runs, {"ricci", "riemann", "christoffel"})

\* Mutation: the scalar stage is handed a Ricci tensor computed earlier.
RunsOfRicciScalarCached(runs) == Ran(runs, {"scalar"})

\* calculate_ricci_scalar calls calculate_ricci_tensor on the metric.
RunsOfRicciScalar(runs) == RunsOfRicciTensor(Ran(runs, {"scalar"}))

\* The metrics of the pipeline's cell texts, and the degenerate metric
\* [[0, 0], [t, r]], whose Ricci scalar is "0" while its Ricci list is not empty.
CallMetrics ==
    {parse_metric_tensor(MetricRows(n, a, b, off[1], off[2]), <<>>).val :
        n \in 0..CallDim, a \in DiagTexts, b \in DiagTexts, off \in OffTexts}
      \cup {parse_metric_tensor(MetricRows(2, <<"0">>, <<"r">>, <<"0">>, <<"t">>), <<>>).val}

InitEinsteinCall ==
    /\ pc = "call"
    /\ metric \in CallMetrics
    /\ coords \in {CoordNames(k) : k \in 0..CallDim}
    /\ prev = [runs |-> NoRuns, ricci_result |-> Ok(<<>>), ricci |-> Ok(<<>>),
               inner |-> Ok(<<>>), ricci_scalar |-> Ok(<<>>),
               ricci_scalar_expr |-> Ok(Zero)]
    /\ out = Ok(<<>>)
    /\ text = <<>> /\ expr = Zero /\ wrt = <<>> /\ rows = <<>>

\* let ricci_result = calculate_ricci_tensor(metric, coords)?;
\* let ricci = ricci_result_to_matrix(&ricci_result, n);
EinsteinRicci ==
    /\ pc = "call"
    /\ prev' = Bind(calculate_ricci_tensor(metric, coords), LAMBDA ricci_result :
                    [prev EXCEPT !.runs = RunsOfRicciTensor(@),
                                 !.ricci_result = ricci_result,
                                 !.ricci = IF IsOk(ricci_result)
                                           THEN ricci_result_to_matrix(ricci_result.val,
                                                                       Len(metric))
                                           ELSE @])
    /\ pc' = IF IsOk(prev'.ricci_result) /\ IsOk(prev'.ricci) THEN "ricci" ELSE "aborted"
    /\ out' = IF ~IsOk(prev'.ricci_result) THEN prev'.ricci_result
              ELSE IF ~IsOk(prev'.ricci) THEN prev'.ricci
              ELSE out
    /\ UNCHANGED <<text, expr, wrt, rows, coords, metric>>

\* let ricci_scalar = calculate_ricci_scalar(metric, coords)?;
\* `inner` is the ricci_result local of calculate_ricci_scalar.
EinsteinScalar ==
    /\ pc = "ricci"
    /\ prev' = [prev EXCEPT !.runs = RunsOfRicciScalar(@),
                            !.inner = calculate_ricci_tensor(metric, coords),
                            !.ricci_scalar = calculate_ricci_scalar(metric, coords)]
    /\ pc' = IF IsOk(prev'.ricci_scalar) THEN "scalar" ELSE "aborted"
    /\ text' = IF IsOk(prev'.ricci_scalar) THEN prev'.ricci_scalar.val.expression ELSE text
    /\ out' = IF IsOk(prev'.ricci_scalar) THEN out ELSE prev'.ricci_scalar
    /\ UNCHANGED <<expr, wrt, rows, coords, metric>>

\* let ricci_scalar_expr = SymbolicExpr::parse(&ricci_scalar.expression)...?;
EinsteinReparse ==
    /\ pc = "scalar"
    /\ prev' = [prev EXCEPT !.ricci_scalar_expr = parse(text)]
    /\ pc' = IF IsOk(prev'.ricci_scalar_expr) THEN "reparsed" ELSE "aborted"
    /\ expr' = IF IsOk(prev'.ricci_scalar_expr) THEN prev'.ricci_scalar_expr.val ELSE expr
    /\ out' = IF IsOk(prev'.ricci_scalar_expr) THEN out ELSE prev'.ricci_scalar_expr
    /\ UNCHANGED <<text, wrt, rows, coords, metric>>

\* The `for mu .. for nu ..` loops and the Ok(..) of calculate_einstein_tensor.
EinsteinAssemble ==
    /\ pc = "reparsed"
    /\ out' = Ok(StageResult(
                Emit(Indices2(Len(metric)),
                     LAMBDA idx : EinsteinComponent(metric, prev.ricci.val, expr, idx)),
                Len(metric)))
    /\ pc' = "returned"
    /\ UNCHANGED <<text, expr, wrt, rows, coords, metric, prev>>

NextEinsteinCall == EinsteinRicci \/ EinsteinScalar \/ EinsteinReparse \/ EinsteinAssemble

SpecEinsteinCall == InitEinsteinCall /\ [][NextEinsteinCall]_vars

----------------------------------------------------------------------------
(* One call of calculate_riemann_tensor, statement by statement.            *)

\* Largest metric size of the traced call.
RiemannDim == 3

RiemannMetrics ==
    {parse_metric_tensor(MetricRows(n, a, b, off[1], off[2]), <<>>).val :
        n \in 0..RiemannDim, a \in DiagTexts, b \in DiagTexts, off \in OffTexts}

InitRiemannCall ==
    /\ pc = "call"
    /\ metric \in RiemannMetrics
    /\ coords \in {CoordNames(k) : k \in 0..RiemannDim}
    /\ prev = [christoffel_result |-> Ok(<<>>), christoffel |-> Ok(<<>>)]
    /\ out = Ok(<<>>)
    /\ text = <<>> /\ expr = Zero /\ wrt = <<>> /\ rows = <<>>

\* let christoffel_result = calculate_christoffel_symbols(metric, coords)?;
RiemannChristoffel ==
    /\ pc = "call"
    /\ prev' = [prev EXCEPT !.christoffel_result =
                                calculate_christoffel_symbols(metric, coords)]
    /\ pc' = IF IsOk(prev'.christoffel_result) THEN "christoffel" ELSE "aborted"
    /\ out' = IF IsOk(prev'.christoffel_result) THEN out ELSE prev'.christoffel_result
    /\ UNCHANGED <<text, expr, wrt, rows, coords, metric>>

\* let christoffel = symbols_to_tensor(&christoffel_result, n);
RiemannReinflate ==
    /\ pc = "christoffel"
    /\ prev' = [prev EXCEPT !.christoffel =
                                symbols_to_tensor(prev.christoffel_result.val, Len(metric))]
    /\ pc' = IF IsOk(prev'.christoffel) THEN "reinflated" ELSE "aborted"
    /\ out' = IF IsOk(prev'.christoffel) THEN out ELSE prev'.christoffel
    /\ UNCHANGED <<text, expr, wrt, rows, coords, metric>>

\* The four index loops and the Ok(..) of calculate_riemann_tensor.
RiemannAssemble ==
    /\ pc = "reinflated"
    /\ LET n == Len(metric)
       IN  out' = Ok(StageResult(
                    Emit(Indices4(n),
                         LAMBDA idx : RiemannComponent(prev.christoffel.val, coords, n, idx)),
                    n))
    /\ pc' = "returned"
    /\ UNCHANGED <<text, expr, wrt, rows, coords, metric, prev>>

NextRiemannCall == RiemannChristoffel \/ RiemannReinflate \/ RiemannAssemble

SpecRiemannCall == InitRiemannCall /\ [][NextRiemannCall]_vars

\* The sum of the `for lambda in 0..n` loop alone, started from Zero.
RECURSIVE QuadraticSum(_, _, _, _, _, _)
QuadraticSum(gamma, rho, sigma, mu, nu, count) ==
    IF count = 0 THEN Zero
    ELSE LET lambda == count - 1
             term1 == Multiply(gamma[<<rho, lambda, mu>>], gamma[<<lambda, sigma, nu>>])
             term2 == Multiply(gamma[<<rho, lambda, nu>>], gamma[<<lambda, sigma, mu>>])
         IN  Add(QuadraticSum(gamma, rho, sigma, mu, nu, lambda), Subtract(term1, term2))

\* The simplified Christoffel expression of every index tuple.
ChristoffelValues ==
    LET n == Len(metric)
        inv == calculate_metric_inverse(metric)
    IN  [idx \in Range(Indices3(n)) |-> ChristoffelComponent(metric, inv, coords, idx)]

IsHalfProduct(e) == Kind(e) = "Multiply" /\ e[2] = Constant(Fin(1, 2))

\* A Variable whose name is no identifier: the text of a composite expression.
IsOpaqueVariable(e) == Kind(e) = "Variable" /\ ~IsIdent(e[2])

\* C22: every expression the Christoffel stage emits is a Constant or a
\* Multiply(Constant(0.5), ..) node; the reinflated Christoffel entries are
\* Zero, Constants or opaque Variables; with identifier coordinate names both
\* derivative terms of every Riemann index tuple are Zero; and the Riemann
\* list is the one made of the simplified quadratic sums alone.
C22_RiemannHasNoDerivativeTerms ==
    /\ pc \in {"christoffel", "reinflated", "returned"} =>
            \A idx \in DOMAIN ChristoffelValues :
                \/ is_zero(ChristoffelValues[idx])
                \/ IsConstant(ChristoffelValues[idx])
                \/ IsHalfProduct(ChristoffelValues[idx])
    /\ pc \in {"reinflated", "returned"} =>
            LET n == Len(metric)
                gamma == prev.christoffel.val
            IN  /\ \A idx \in DOMAIN gamma :
                        \/ Kind(gamma[idx]) \in {"Zero", "Constant"}
                        \/ IsOpaqueVariable(gamma[idx])
                /\ \A i \in 1..Len(coords) : IsIdent(coords[i])
                /\ \A idx \in DOMAIN gamma, mu \in 0..(n - 1) :
                        derivative(gamma[idx], Coord(coords, mu)) = Zero
    /\ pc = "returned" =>
            LET n == Len(metric)
                gamma == prev.christoffel.val
            IN  out = Ok(StageResult(
                        Emit(Indices4(n),
                             LAMBDA idx : simplify(QuadraticSum(gamma, idx[1], idx[2],
                                                                idx[3], idx[4], n))),
                        n))

\* A call returned a non-empty Riemann list built on opaque Christoffel entries.
C22_Witness ==
    /\ pc = "returned"
    /\ out.val.components # <<>>
    /\ \E idx \in DOMAIN prev.christoffel.val : IsOpaqueVariable(prev.christoffel.val[idx])

\* A call reinflated a Christoffel entry to a Constant.
C22_WitnessConstant ==
    /\ pc = "returned"
    /\ \E idx \in DOMAIN prev.christoffel.val : IsConstant(prev.christoffel.val[idx])

----------------------------------------------------------------------------
(* Shape of the trees parse returns *)

\* Levels of nodes in e.
RECURSIVE Depth(_)
Depth(e) ==
    CASE Kind(e) \in BinaryKinds ->
            1 + (IF Depth(e[2]) > Depth(e[3]) THEN Depth(e[2]) ELSE Depth(e[3]))
      [] Kind(e) = "Function" ->
            1 + (IF Len(e[3]) = 0 THEN 0
                 ELSE CHOOSE d \in {Depth(e[3][i]) : i \in 1..Len(e[3])} :
                        \A i \in 1..Len(e[3]) : Depth(e[3][i]) <= d)
      [] OTHER -> 1

\* Some node of e is an Add, Subtract, Multiply or Divide.
RECURSIVE HasArithmetic(_)
HasArithmetic(e) ==
    CASE Kind(e) \in {"Add", "Subtract", "Multiply", "Divide"} -> TRUE
      [] Kind(e) = "Power" -> HasArithmetic(e[2]) \/ HasArithmetic(e[3])
      [] Kind(e) = "Function" -> \E i \in 1..Len(e[3]) : HasArithmetic(e[3][i])
      [] OTHER -> FALSE

\* Zero, One, a Constant, a Variable or Power(Variable, Constant).
IsFlatShape(e) ==
    \/ Kind(e) \in {"Zero", "One", "Constant", "Variable"}
    \/ Kind(e) = "Power" /\ Kind(e[2]) = "Variable" /\ Kind(e[3]) = "Constant"

\* C23: the tree parse returns holds no Add, Subtract, Multiply or Divide
\* node and has depth at most 3: it is Zero, One, a Constant, a Variable,
\* Power(Variable, Constant), or a Function whose arguments are each one of
\* these five shapes and never a Function.
C23_ParseTreesAreShallow ==
    (pc = "parse_done" /\ IsOk(out)) =>
        /\ ~HasArithmetic(out.val)
        /\ Depth(out.val) <= 3
        /\ \/ IsFlatShape(out.val)
           \/ /\ Kind(out.val) = "Function"
              /\ \A i \in 1..Len(out.val[3]) : IsFlatShape(out.val[3][i])

\* parse returned a Function of depth 3: sin(r^2, x).
C23_Witness ==
    /\ pc = "parse_done"
    /\ out = Ok(Function(Sin, << Power(Var("r"), Constant(Fin(2, 1))), Var("x") >>))
    /\ Depth(out.val) = 3

----------------------------------------------------------------------------
(* Normal form of the trees simplify returns *)

\* The node e itself, whatever its operands hold below them, is one simplify
\* would not have rewritten.
IsNormalNode(e) ==
    LET l == e[2]
        r == e[3]
        both == IsConstant(l) /\ IsConstant(r)
    IN  CASE Kind(e) = "Add"      -> l # Zero /\ r # Zero /\ ~both
          [] Kind(e) = "Subtract" -> r # Zero /\ ~both
          [] Kind(e) = "Multiply" -> l \notin {Zero, One} /\ r \notin {Zero, One} /\ ~both
          [] Kind(e) = "Divide"   -> l # Zero /\ r # One
          [] Kind(e) = "Power"    -> l \notin {Zero, One} /\ r \notin {Zero, One} /\ ~both
          [] OTHER -> TRUE

\* Every arithmetic node of e outside Function arguments is normal.
RECURSIVE IsNormalForm(_)
IsNormalForm(e) ==
    IF Kind(e) \in BinaryKinds
    THEN IsNormalNode(e) /\ IsNormalForm(e[2]) /\ IsNormalForm(e[3])
    ELSE TRUE

\* C24: outside Function arguments the result of simplify has no Add node
\* with a Zero operand, no Multiply node with a Zero or One operand, no
\* Subtract node with a Zero right operand, no Divide node with a Zero left or
\* One right operand, no Power node with a Zero or One operand, and no Add,
\* Subtract, Multiply or Power node with two Constant operands.
C24_SimplifyNormalForm ==
    pc \in {"simplified", "resimplified"} => IsNormalForm(out)

\* simplify was given an operator node whose left operand was not in normal
\* form and returned a different operator node: (0 + 1) + 1 became 1 + 1.
C24_Witness ==
    /\ pc = "simplified"
    /\ ~IsNormalForm(expr)
    /\ Kind(expr) \in BinaryKinds /\ ~IsNormalForm(expr[2]) /\ IsNormalNode(expr)
    /\ Kind(out) \in BinaryKinds
    /\ out # expr

----------------------------------------------------------------------------
(* Symmetry of the Christoffel list *)

\* g[a][b] and g[b][a] are the same tree, for all a, b.
IsSymmetricMetric(m) ==
    \A a \in 0..(Len(m) - 1), b \in 0..(Len(m) - 1) : At(m, a, b) = At(m, b, a)

\* The index tuples of the list the Christoffel stage returned.
EmittedSymbols ==
    {prev.christoffel_result.val.symbols[k].indices :
        k \in 1..Len(prev.christoffel_result.val.symbols)}

\* C25: for a symmetric square metric the Christoffel stage emits the index
\* tuple [mu, alpha, beta] if and only if it emits [mu, beta, alpha].
C25_ChristoffelLowerSymmetric ==
    (pc \in {"christoffel", "reinflated", "returned"} /\ IsSymmetricMetric(metric)) =>
        \A t \in Range(Indices3(Len(metric))) :
            t \in EmittedSymbols <=> <<t[1], t[3], t[2]>> \in EmittedSymbols

\* The stage emitted a tuple with two different lower indices, and its
\* mirror image, for a symmetric metric that is not diagonal.
C25_Witness ==
    /\ pc = "christoffel"
    /\ IsSymmetricMetric(metric)
    /\ Len(metric) >= 2 /\ At(metric, 0, 1) # Zero
    /\ \E t \in EmittedSymbols : t[2] # t[3] /\ <<t[1], t[3], t[2]>> \in EmittedSymbols
    /\ \E t \in Range(Indices3(Len(metric))) : t \notin EmittedSymbols

\* For a metric that is not symmetric the list is not symmetric either.
C25_WitnessAsymmetric ==
    /\ pc = "christoffel"
    /\ ~IsSymmetricMetric(metric)
    /\ \E t \in EmittedSymbols : <<t[1], t[3], t[2]>> \notin EmittedSymbols

----------------------------------------------------------------------------
(* The Einstein list against the Ricci list *)

\* The expression texts a component list holds for index tuple idx.
TextsAt(components, idx) ==
    {components[k].expression :
        k \in {j \in 1..Len(components) : components[j].indices = idx}}

\* C26: for every index pair [mu, nu] whose metric entry is the Zero
\* sentinel, and for every pair when the Ricci scalar's text is "0", the
\* Einstein stage emits a component [mu, nu] if and only if the Ricci stage
\* does, and with the same expression text.
C26_EinsteinEqualsRicciWhereTraceVanishes ==
    (pc = "returned" /\ IsOk(out)) =>
        \A idx \in Range(Indices2(Len(metric))) :
            (At(metric, idx[1], idx[2]) = Zero \/ text = <<"0">>) =>
                TextsAt(out.val.components, idx)
                    = TextsAt(prev.ricci_result.val.components, idx)

\* Both stages emitted a component at a pair whose metric entry is Zero,
\* while the Ricci scalar was not "0".
C26_Witness ==
    /\ pc = "returned" /\ IsOk(out)
    /\ text # <<"0">>
    /\ \E idx \in Range(Indices2(Len(metric))) :
            /\ At(metric, idx[1], idx[2]) = Zero
            /\ TextsAt(out.val.components, idx) # {}
            /\ TextsAt(out.val.components, idx)
                    = TextsAt(prev.ricci_result.val.components, idx)

\* The Ricci scalar was "0" and both stages emitted the same non-empty list.
C26_WitnessZeroScalar ==
    /\ pc = "returned" /\ IsOk(out)
    /\ text = <<"0">>
    /\ out.val.components # <<>>
    /\ out.val.components = prev.ricci_result.val.components

----------------------------------------------------------------------------
(* einstein.rs: solve_einstein_constraint_equations *)

\* The process ended inside the call for want of memory.
Abort == [kind |-> "Abort", val |-> <<>>]

HamiltonianText ==
    <<"R"," ","+"," ","K","^","2"," ","-"," ","K","_","i","j"," ","*"," ",
      "K","^","i","j"," ","-"," ","1","6"," ","*"," ","p","i"," ","*"," ","r","h","o">>

\* format!("D_j(K^{i}j - gamma^{i}j * K) - 8 * pi * j^{i}", i=i)
MomentumText(i) ==
    <<"D","_","j","(","K","^">> \o DigitsOf(i) \o <<"j"," ","-"," ",
      "g","a","m","m","a","^">> \o DigitsOf(i) \o <<"j"," ","*"," ","K",")"," ",
      "-"," ","8"," ","*"," ","p","i"," ","*"," ","j","^">> \o DigitsOf(i)

\* `n-1` on usize: the difference for n >= 1; for n = 0 a panic in a build
\* with overflow checks and usize::MAX ("wrapped") in a build without.
ConstraintLoopBound(n, overflow_checks) ==
    IF n >= 1 THEN Ok(n - 1)
    ELSE IF overflow_checks THEN Panic
    ELSE [kind |-> "Wrapped", val |-> <<>>]

\* solve_einstein_constraint_equations.  With the wrapped bound the loop
\* pushes a component for every i up to usize::MAX - 1, which no memory holds.
solve_einstein_constraint_equations(initial_data, coordinates, overflow_checks) ==
    LET n == Len(initial_data)
        hamiltonian == TensorComponent(<<>>, HamiltonianText)
    IN  Bind(ConstraintLoopBound(n, overflow_checks), LAMBDA bound :
            CASE bound.kind = "Panic" -> Panic
              [] bound.kind = "Wrapped" -> Abort
              [] OTHER ->
                    Ok(<<hamiltonian>> \o
                       [k \in 1..bound.val |-> TensorComponent(<<k - 1>>, MomentumText(k - 1))]))

\* Largest number of rows of the initial data.
MaxRows == 4

\* Initial data of n rows of m cells each; the call reads only n.
ConstraintData ==
    {[i \in 1..n |-> [j \in 1..m |-> c]] :
        n \in 0..MaxRows, m \in 0..MaxRows, c \in {Zero, One, Variable(<<"r">>)}}

InitConstraints ==
    /\ pc = "start"
    /\ metric \in ConstraintData
    /\ coords \in {CoordNames(k) : k \in 0..MaxRows}
    /\ out = Ok(<<>>)
    /\ prev = FALSE
    /\ text = <<>> /\ expr = Zero /\ wrt = <<>> /\ rows = <<>>

\* One call, in a build with (prev' = TRUE) or without overflow checks.
SolveConstraints ==
    /\ pc = "start"
    /\ prev' \in BOOLEAN
    /\ out' = solve_einstein_constraint_equations(metric, coords, prev')
    /\ pc' = "solved"
    /\ UNCHANGED <<text, expr, wrt, rows, coords, metric>>

NextConstraints == SolveConstraints

SpecConstraints == InitConstraints /\ [][NextConstraints]_vars

\* The larger of a and b.
Max(a, b) == IF a >= b THEN a ELSE b

\* C27: for initial data of n rows, n >= 0, the call returns one Hamiltonian
\* constraint with an empty index tuple followed by max(n - 1, 0) momentum
\* constraints with index tuples [0], [1], .., [n - 2] in that order; the
\* loop bound never wraps below zero.
C27_ConstraintsForEveryRowCount ==
    pc = "solved" =>
        LET n == Len(metric)
        IN  /\ IsOk(out)
            /\ Len(out.val) = 1 + Max(n - 1, 0)
            /\ out.val[1].indices = <<>>
            /\ \A k \in 2..Len(out.val) : out.val[k].indices = <<k - 2>>

\* The same for n >= 1, where the code does what the claim says.
C27_ConstraintsForPositiveRowCount ==
    (pc = "solved" /\ Len(metric) >= 1) =>
        LET n == Len(metric)
        IN  /\ IsOk(out)
            /\ Len(out.val) = n
            /\ out.val[1].indices = <<>>
            /\ \A k \in 2..n : out.val[k].indices = <<k - 2>>

====
